---- MODULE Spec2Model ----
(***************************************************************************)
(* Astrotracker: the astronomical simulator (astro_simulator.py), the      *)
(* location manager (ubicacion.py), the observation example               *)
(* (astrotracker_ubicacion.py) and the two pygame front ends              *)
(* (AppPC/astrotracker_gui.py, AppPC/astrotracker_advanced_gui.py).        *)
(*                                                                         *)
(* Angles are integers in tenths of a degree (6 degrees is 60), so that    *)
(* the random tracking error of 0.1 degree is one unit.  The positions     *)
(* astropy computes from the clock are inputs of the actions.              *)
(***************************************************************************)
EXTENDS Integers, Sequences, FiniteSets, TLC

(***************************************************************************)
(* Bounds of the model.                                                    *)
(***************************************************************************)
\* altitudes are drawn within AltWindow tenths of a degree of each mark
AltWindow == 2
\* the catalog holds the first NumTargets rows of the source's table
NumTargets == 2
\* update_loop threads that may be started in one run of the advanced GUI
MaxUpdaters == 1
\* the update_loop threads followed where only ENTER, M and ESC are pressed
MaxLoops == 2
\* detect_location_async threads that may be started in one run of a GUI
MaxDetectors == 1
\* the instants the clock and the timestamp argument range over
NumInstants == 4

(***************************************************************************)
(* Values.                                                                 *)
(***************************************************************************)
\* Python's None where a dict or an object is expected
None == [none |-> TRUE]
\* Python's None where a string is expected
NoName == "None"

\* 90 degrees: altitudes lie in [-90, 90]
ALT_LIMIT == 900
\* azimuths, in tenths of a degree
Azs == {0, 3599}
\* Moon altitudes, around the horizon and around 30 degrees
MoonAlts == {-10, 0, 10, 299, 300}

\* 10 degrees, the default of elevacion_minima
ELEVACION_MINIMA == 100

\* thresholds of the day phase, tenths of a degree
DIA_MIN == 60
CIVIL_MIN == -60
NAUTICO_MIN == -120
ASTRONOMICO_MIN == -180

\* the altitudes where a decision of the program changes, and the two ends
AltMarks ==
    {-ALT_LIMIT, ASTRONOMICO_MIN, NAUTICO_MIN, CIVIL_MIN, 0, DIA_MIN,
     ELEVACION_MINIMA, ALT_LIMIT}

\* the altitudes the actions draw from
Alts ==
    (UNION {(m - AltWindow)..(m + AltWindow) : m \in AltMarks})
        \cap (-ALT_LIMIT..ALT_LIMIT)

\* ra, dec in thousandths of a degree, magnitude in hundredths
CatalogTable ==
    << [name |-> "Sirius",     ra |-> 101287, dec |-> -16716, magnitude |-> -146],
       [name |-> "Vega",       ra |-> 279234, dec |->  38784, magnitude |->    3],
       [name |-> "Polaris",    ra |->  37946, dec |->  89264, magnitude |->  197],
       [name |-> "Betelgeuse", ra |->  88793, dec |->   7407, magnitude |->   50],
       [name |-> "Rigel",      ra |->  78634, dec |->  -8202, magnitude |->   13],
       [name |-> "Aldebaran",  ra |->  68980, dec |->  16509, magnitude |->   85],
       [name |-> "Capella",    ra |->  79172, dec |->  45998, magnitude |->    8],
       [name |-> "Arcturus",   ra |-> 213915, dec |->  19182, magnitude |->   -5],
       [name |-> "Antares",    ra |-> 247352, dec |-> -26432, magnitude |->  109] >>

\* self.catalog, a dict in insertion order
InitialCatalog == SubSeq(CatalogTable, 1, NumTargets)

\* a name that is in no catalog
UnknownName == "Andromeda"

\* the observer of the M key
Cordoba == [latitud |-> -314065, longitud |-> -641885, altitud |-> 430]

\* g.latlng is None: the latitud and longitud stored are None
NO_COORD == 9999999

\* the proveedores list of obtener_ubicacion_alternativa
Proveedores == <<"ipapi", "freegeoip", "maxmind">>

\* what a geocoder call may answer: an exception, not ok, ok without
\* coordinates, ok with coordinates (latitude 0 included)
GeoAnswers ==
    { [raised |-> TRUE],
      [raised |-> FALSE, ok |-> FALSE],
      [raised |-> FALSE, ok |-> TRUE, lat |-> NO_COORD, lon |-> NO_COORD],
      [raised |-> FALSE, ok |-> TRUE, lat |-> 0, lon |-> 100000],
      [raised |-> FALSE, ok |-> TRUE, lat |-> 404168, lon |-> -37038] }

VARIABLES
    sim,            \* an AstroTrackingSimulator driven directly
    ret,            \* the last call on it and what it returned
    ubicacion_mgr,  \* the UbicacionManager of the running GUI
    archivo,        \* astrotracker_ubicacion.json: None or the dict saved
    simulator,      \* gui.simulator
    ubicacion_data, \* gui.ubicacion_data
    earth_location, \* gui.earth_location
    running,        \* gui.running
    current_target, \* gui.current_target
    target_coords,  \* gui.target_coords
    telescope_pos,  \* gui.telescope_pos
    tracking_status,        \* gui.tracking_status
    sun_moon_info,  \* gui.sun_moon_info
    sidereal_time,  \* gui.sidereal_time
    available_targets,      \* gui.available_targets
    selected_target_index,  \* gui.selected_target_index, counted from 0
    frame,          \* what the last frame drawn showed of the observer
    main,           \* the main thread: where it is in handle_events
    updaters,       \* the update_loop threads
    detectors,      \* the detect_location_async threads
    app             \* a CNCApp (comunicacion.py): its port and its widgets

simVars == <<sim, ret>>
locVars == <<ubicacion_mgr, archivo, ubicacion_data, earth_location>>
trackVars == <<current_target, target_coords, telescope_pos, tracking_status>>
astroVars == <<sun_moon_info, sidereal_time>>
selVars == <<available_targets, selected_target_index>>
advVars == <<simulator, trackVars, astroVars, selVars, updaters>>
vars ==
    <<sim, ret, ubicacion_mgr, archivo, simulator, ubicacion_data, earth_location,
      running, current_target, target_coords, telescope_pos,
      tracking_status, sun_moon_info, sidereal_time, available_targets,
      selected_target_index, frame, main, updaters, detectors, app>>

(***************************************************************************)
(* AstroTrackingSimulator                                                  *)
(***************************************************************************)
\* AstroTrackingSimulator.__init__
NewSimulator(location) ==
    [earth_location |-> location,
     target_object |-> NoName,
     tracking_active |-> FALSE,
     catalog |-> InitialCatalog]

\* name in self.catalog
InCatalog(s, name) == \E i \in 1..Len(s.catalog) : s.catalog[i].name = name

\* self.catalog[name]
CatalogEntry(s, name) ==
    s.catalog[CHOOSE i \in 1..Len(s.catalog) : s.catalog[i].name = name]

\* get_catalog_objects: list(self.catalog.keys())
get_catalog_objects(s) == [i \in 1..Len(s.catalog) |-> s.catalog[i].name]

\* set_target: the simulator afterwards
\* a name taken as the target without the catalog lookup
set_target_unchecked(s, target_name) ==
    [s EXCEPT !.target_object = target_name, !.tracking_active = TRUE]

\* the entry of the target moved to the head of the catalog
set_target_reordering(s, target_name) ==
    IF InCatalog(s, target_name)
    THEN [s EXCEPT !.target_object = target_name,
                   !.tracking_active = TRUE,
                   !.catalog = <<CatalogEntry(s, target_name)>> \o
                               SelectSeq(s.catalog, LAMBDA e : e.name # target_name)]
    ELSE s

set_target_state(s, target_name) ==
    IF InCatalog(s, target_name)
    THEN [s EXCEPT !.target_object = target_name, !.tracking_active = TRUE]
    ELSE s

\* set_target: the value returned
set_target_result(s, target_name) == InCatalog(s, target_name)

\* sidereal_rate = 15.0 degrees per hour
SIDEREAL_RATE == 15

\* calculate_tracking_rates
calculate_tracking_rates(s) ==
    IF ~s.tracking_active
    THEN None
    ELSE [ra_rate |-> SIDEREAL_RATE, dec_rate |-> 0, units |-> "grados/hora"]

\* the horizon itself taken as visible
IsVisibleAtHorizon(alt) == alt >= 0

\* is_visible = target_altaz.alt.deg > 0
IsVisible(alt) == alt > 0

\* "Visible" if is_visible else "Bajo el horizonte"
VisibilityStatus(is_visible) == IF is_visible THEN "Visible" ELSE "Bajo el horizonte"

\* 360 degrees: astropy's Longitude wraps azimuths into [0, 360)
AZ_TURN == 3600

\* the azimuth reported in the [-180, 180) convention
get_target_coordinates_signed(s, alt, az, ok) ==
    IF s.target_object = NoName \/ s.earth_location = None
    THEN None
    ELSE IF ok
         THEN [name |-> s.target_object,
               altitud |-> alt,
               azimut |-> IF 2 * az >= AZ_TURN THEN az - AZ_TURN ELSE az,
               magnitude |-> CatalogEntry(s, s.target_object).magnitude,
               is_visible |-> IsVisible(alt),
               status |-> VisibilityStatus(IsVisible(alt))]
         ELSE [name |-> s.target_object,
               error |-> "exception",
               status |-> "Error en calculo"]

\* get_target_coordinates; alt, az are what astropy's transform gives at the
\* time of the call, ok is FALSE when the computation raises
get_target_coordinates(s, alt, az, ok) ==
    IF s.target_object = NoName \/ s.earth_location = None
    THEN None
    ELSE IF ok
         THEN [name |-> s.target_object,
               altitud |-> alt,
               azimut |-> az,
               magnitude |-> CatalogEntry(s, s.target_object).magnitude,
               is_visible |-> IsVisible(alt),
               status |-> VisibilityStatus(IsVisible(alt))]
         ELSE [name |-> s.target_object,
               error |-> "exception",
               status |-> "Error en calculo"]

\* the chain with >= at the night threshold
DayPhaseInclusive(sun_alt) ==
    IF sun_alt > DIA_MIN THEN "Dia"
    ELSE IF sun_alt > CIVIL_MIN THEN "Crepusculo"
    ELSE IF sun_alt > NAUTICO_MIN THEN "Crepusculo nautico"
    ELSE IF sun_alt >= ASTRONOMICO_MIN THEN "Crepusculo astronomico"
    ELSE "Noche"

\* the chain with the labels of the two darker twilights exchanged
DayPhaseSwapped(sun_alt) ==
    IF sun_alt > DIA_MIN THEN "Dia"
    ELSE IF sun_alt > CIVIL_MIN THEN "Crepusculo"
    ELSE IF sun_alt > NAUTICO_MIN THEN "Crepusculo astronomico"
    ELSE IF sun_alt > ASTRONOMICO_MIN THEN "Crepusculo nautico"
    ELSE "Noche"

\* the if/elif chain on sun_alt
DayPhase(sun_alt) ==
    IF sun_alt > DIA_MIN THEN "Dia"
    ELSE IF sun_alt > CIVIL_MIN THEN "Crepusculo"
    ELSE IF sun_alt > NAUTICO_MIN THEN "Crepusculo nautico"
    ELSE IF sun_alt > ASTRONOMICO_MIN THEN "Crepusculo astronomico"
    ELSE "Noche"

\* the verdict with astronomical twilight taken as dark enough
ObservingConditionsLax(day_phase) ==
    IF day_phase \in {"Noche", "Crepusculo astronomico"} THEN "Good" ELSE "Poor"

\* 'Good' if day_phase == "Noche" else 'Poor'
ObservingConditions(day_phase) == IF day_phase = "Noche" THEN "Good" ELSE "Poor"

\* sun_alt > 0, moon_altaz.alt.deg > 0
BodyVisible(alt) == alt > 0

\* the computation run without the test of the observer
get_sun_moon_info_unguarded(s, sun_alt, sun_az, moon_alt, moon_az, ok) ==
    IF ok
    THEN [sun |-> [altitud |-> sun_alt, azimut |-> sun_az,
                   visible |-> BodyVisible(sun_alt)],
          moon |-> [altitud |-> moon_alt, azimut |-> moon_az,
                    visible |-> BodyVisible(moon_alt)],
          day_phase |-> DayPhase(sun_alt),
          observing_conditions |-> ObservingConditions(DayPhase(sun_alt))]
    ELSE [error |-> "exception", status |-> "Error calculando Sol/Luna"]

\* get_sun_moon_info
get_sun_moon_info(s, sun_alt, sun_az, moon_alt, moon_az, ok) ==
    IF s.earth_location = None
    THEN None
    ELSE IF ok
         THEN [sun |-> [altitud |-> sun_alt, azimut |-> sun_az,
                        visible |-> BodyVisible(sun_alt)],
               moon |-> [altitud |-> moon_alt, azimut |-> moon_az,
                         visible |-> BodyVisible(moon_alt)],
               day_phase |-> DayPhase(sun_alt),
               observing_conditions |-> ObservingConditions(DayPhase(sun_alt))]
         ELSE [error |-> "exception", status |-> "Error calculando Sol/Luna"]

\* error_range = 0.1
ERROR_RANGE == 1

\* random.uniform(-error_range, error_range), in tenths of a degree
TrackingErrors == -ERROR_RANGE..ERROR_RANGE

\* the mount placed on the other side of the target
simulate_telescope_position_mirrored(coords, error_alt, error_az) ==
    IF coords = None \/ "error" \in DOMAIN coords
    THEN [telescope_alt |-> 0, telescope_az |-> 0,
          tracking_error_alt |-> 0, tracking_error_az |-> 0,
          status |-> "No tracking"]
    ELSE [telescope_alt |-> coords.altitud - error_alt,
          telescope_az |-> coords.azimut - error_az,
          tracking_error_alt |-> error_alt,
          tracking_error_az |-> error_az,
          status |-> "Tracking active"]

\* simulate_telescope_position; error_alt, error_az are the two random draws
simulate_telescope_position(coords, error_alt, error_az) ==
    IF coords = None \/ "error" \in DOMAIN coords
    THEN [telescope_alt |-> 0, telescope_az |-> 0,
          tracking_error_alt |-> 0, tracking_error_az |-> 0,
          status |-> "No tracking"]
    ELSE [telescope_alt |-> coords.altitud + error_alt,
          telescope_az |-> coords.azimut + error_az,
          tracking_error_alt |-> error_alt,
          tracking_error_az |-> error_az,
          status |-> "Tracking active"]

\* get_local_sidereal_time: a string computed from the clock
SiderealTimes == {"06:00:00"}

\* a result dict that is neither None nor an error dict
Successful(r) == r # None /\ "error" \notin DOMAIN r

(***************************************************************************)
(* AstroTrackerConUbicacion                                                *)
(***************************************************************************)
\* es_objeto_visible(elevacion, elevacion_minima)
es_objeto_visible(elevacion, elevacion_minima) == elevacion > elevacion_minima

\* An AstroTrackerConUbicacion: its earth_location.
\* calcular_posicion_sol / _luna: elevacion and azimuth are what astropy gives
calcular_posicion(tracker, elevacion, azimuth) ==
    IF tracker.earth_location = None
    THEN None
    ELSE [elevacion |-> elevacion, azimuth |-> azimuth]

\* calcular_posicion_estrella
calcular_posicion_estrella(tracker, ra, dec, elevacion, azimuth) ==
    IF tracker.earth_location = None
    THEN None
    ELSE [elevacion |-> elevacion, azimuth |-> azimuth, ra |-> ra, dec |-> dec]

\* 30 degrees: the Moon below it leaves the conditions 'Buenas'
LUNA_MAX == 300

\* obtener_info_observacion
\* the verdict taken from the Sun alone
obtener_info_observacion_sin_luna(tracker, sol_elevacion, luna_elevacion, azimuth) ==
    IF tracker.earth_location = None
    THEN None
    ELSE LET es_noche == sol_elevacion < CIVIL_MIN
         IN  [sol |-> calcular_posicion(tracker, sol_elevacion, azimuth),
              luna |-> calcular_posicion(tracker, luna_elevacion, azimuth),
              es_noche |-> es_noche,
              condiciones_observacion |->
                  IF es_noche THEN "Buenas" ELSE "Regular"]

obtener_info_observacion(tracker, sol_elevacion, luna_elevacion, azimuth) ==
    IF tracker.earth_location = None
    THEN None
    ELSE LET es_noche == sol_elevacion < CIVIL_MIN
         IN  [sol |-> calcular_posicion(tracker, sol_elevacion, azimuth),
              luna |-> calcular_posicion(tracker, luna_elevacion, azimuth),
              es_noche |-> es_noche,
              condiciones_observacion |->
                  IF es_noche /\ luna_elevacion < LUNA_MAX
                  THEN "Buenas" ELSE "Regular"]

\* imprimir_info_observacion: the "Visible:" line for the Moon
LunaVisibleLine(luna_elevacion) == es_objeto_visible(luna_elevacion, ELEVACION_MINIMA)

\* the Vega example of __main__: the "Visible:" line
VegaVisibleLine(vega_elevacion) == es_objeto_visible(vega_elevacion, ELEVACION_MINIMA)

(***************************************************************************)
(* UbicacionManager                                                        *)
(***************************************************************************)
\* UbicacionManager.__init__
NewManager == [ubicacion_actual |-> None, earth_location |-> None]

\* the truth value Python gives a coordinate: None and 0 are false
Truthy(x) == x # NO_COORD /\ x # 0

\* A location dict: its latitud, longitud and altitud.  The other keys
\* (ciudad, pais, region, timezone, direccion, timestamp, proveedor) are
\* descriptive strings that no statement of the program tests.
\* the dict obtener_ubicacion_automatica and _alternativa build from g
GeocodedDict(g) == [latitud |-> g.lat, longitud |-> g.lon, altitud |-> 0]

\* the dict establecer_ubicacion_manual builds
ManualDict(latitud, longitud, altitud) ==
    [latitud |-> latitud, longitud |-> longitud, altitud |-> altitud]

\* EarthLocation(lat=..., lon=..., height=...)
EarthLocation(lat, lon, height) == [lat |-> lat, lon |-> lon, height |-> height]

\* the EarthLocation built from the fields of a location dict
EarthLocationOf(d) == EarthLocation(d.latitud, d.longitud, d.altitud)

\* 90 degrees in ten-thousandths of a degree: the latitudes astropy accepts
LAT_LIMIT == 900000
\* 180 degrees: the longitudes of the spec's observer
LON_LIMIT == 1800000

\* EarthLocation(...) raises: None * u.deg is a TypeError, a latitude outside
\* [-90, 90] a ValueError; longitudes are wrapped, never refused
EarthLocationRaises(lat, lon, height) ==
    \/ lat = NO_COORD
    \/ lon = NO_COORD
    \/ height = NO_COORD
    \/ lat \notin -LAT_LIMIT..LAT_LIMIT

\* d.get(k, default)
Get(d, k, default) == IF k \in DOMAIN d THEN d[k] ELSE default

\* The JSON text of a number is its sign and its decimal digits; of None, null.
RECURSIVE Digits(_)
Digits(n) == IF n < 10 THEN <<n>> ELSE Append(Digits(n \div 10), n % 10)

RECURSIVE NumberOf(_)
NumberOf(digits) ==
    IF Len(digits) = 0 THEN 0
    ELSE 10 * NumberOf(SubSeq(digits, 1, Len(digits) - 1)) + digits[Len(digits)]

\* a number written with its last digit dropped
JsonTokenShort(x) ==
    IF x = NO_COORD
    THEN [null |-> TRUE]
    ELSE [null |-> FALSE, minus |-> x < 0,
          digits |-> Digits((IF x < 0 THEN -x ELSE x) \div 10)]

\* json.dump of one value
JsonToken(x) ==
    IF x = NO_COORD
    THEN [null |-> TRUE]
    ELSE [null |-> FALSE, minus |-> x < 0,
          digits |-> Digits(IF x < 0 THEN -x ELSE x)]

\* json.load of one value
JsonValue(tok) ==
    IF tok.null THEN NO_COORD
    ELSE IF tok.minus THEN -NumberOf(tok.digits) ELSE NumberOf(tok.digits)

\* json.dump(self.ubicacion_actual, f): the text of the file
json_dump(d) == [k \in DOMAIN d |-> JsonToken(d[k])]

\* json.load(f)
json_load(text) == [k \in DOMAIN text |-> JsonValue(text[k])]

\* if latitud and longitud: self.earth_location = EarthLocation(...)
\* (the statement reads self.ubicacion_actual as it is when it runs)
RecreateEarthLocation(m) ==
    IF Truthy(m.ubicacion_actual.latitud) /\ Truthy(m.ubicacion_actual.longitud)
    THEN [m EXCEPT !.earth_location = EarthLocationOf(m.ubicacion_actual)]
    ELSE m

\* get_earth_location
get_earth_location(m) == m.earth_location

\* cargar_ubicacion, lines 295-300: the EarthLocation is recreated
CargarRecreates(d) ==
    Truthy(Get(d, "latitud", NO_COORD)) /\ Truthy(Get(d, "longitud", NO_COORD))

\* cargar_ubicacion, lines 296-300: the constructor raises (d['latitud'] of a
\* dict that passed the test above is present)
CargarRaises(d) ==
    /\ CargarRecreates(d)
    /\ EarthLocationRaises(d.latitud, d.longitud, Get(d, "altitud", 0))

\* cargar_ubicacion: the manager afterwards; file is None when there is no file
cargar_ubicacion(m, file) ==
    IF file = None
    THEN m
    ELSE LET d == json_load(file)
             loaded == [m EXCEPT !.ubicacion_actual = d]
         IN  IF CargarRecreates(d) /\ ~CargarRaises(d)
             THEN [loaded EXCEPT !.earth_location =
                      EarthLocation(d.latitud, d.longitud, Get(d, "altitud", 0))]
             ELSE loaded

\* cargar_ubicacion: the value returned
cargar_ubicacion_result(m, file) ==
    IF file = None THEN None
    ELSE IF CargarRaises(json_load(file)) THEN None
    ELSE json_load(file)

\* guardar_ubicacion: the file afterwards
guardar_ubicacion(m, file) ==
    IF m.ubicacion_actual # None THEN json_dump(m.ubicacion_actual) ELSE file

\* guardar_ubicacion: the value returned
guardar_ubicacion_result(m) == m.ubicacion_actual # None

\* establecer_ubicacion_manual: line 118 always runs, the constructor of line
\* 130 may raise and then line 130 assigns nothing
establecer_ubicacion_manual(m, latitud, longitud, altitud) ==
    LET written == [m EXCEPT !.ubicacion_actual = ManualDict(latitud, longitud, altitud)]
    IN  IF EarthLocationRaises(latitud, longitud, altitud)
        THEN written
        ELSE [written EXCEPT !.earth_location = EarthLocation(latitud, longitud, altitud)]

\* establecer_ubicacion_manual: the call ends with an exception
establecer_ubicacion_manual_raises(latitud, longitud, altitud) ==
    EarthLocationRaises(latitud, longitud, altitud)

\* A thread inside obtener_ubicacion: where it is, the provider it is at, and
\* the value the call returns.  One step per statement that writes the manager.
LocatorStart == [pc |-> "auto_geocode", prov |-> 0, ubicacion |-> None]

\* the steps with the alternatives entered at the second provider
ObtenerStepSkipping(t, m, g) ==
    CASE t.pc = "auto_geocode" ->
            IF ~g.raised /\ g.ok
            THEN <<[t EXCEPT !.pc = "auto_earth"],
                   [m EXCEPT !.ubicacion_actual = GeocodedDict(g)]>>
            ELSE <<[t EXCEPT !.pc = "alt_geocode", !.prov = 2], m>>
      [] t.pc = "auto_earth" ->
            <<[t EXCEPT !.pc = "auto_return"], RecreateEarthLocation(m)>>
      [] t.pc = "auto_return" ->
            <<[t EXCEPT !.pc = "located", !.ubicacion = m.ubicacion_actual], m>>
      [] t.pc = "alt_geocode" ->
            IF ~g.raised /\ g.ok
            THEN <<[t EXCEPT !.pc = "alt_earth"],
                   [m EXCEPT !.ubicacion_actual = GeocodedDict(g)]>>
            ELSE IF t.prov < Len(Proveedores)
                 THEN <<[t EXCEPT !.prov = t.prov + 1], m>>
                 ELSE <<[t EXCEPT !.pc = "located", !.ubicacion = None], m>>
      [] t.pc = "alt_earth" ->
            <<[t EXCEPT !.pc = "alt_return"], RecreateEarthLocation(m)>>
      [] t.pc = "alt_return" ->
            <<[t EXCEPT !.pc = "located", !.ubicacion = m.ubicacion_actual], m>>

\* obtener_ubicacion, one step of thread state t on manager m with geocoder
\* answer g: the pair of the thread state and the manager afterwards
ObtenerStep(t, m, g) ==
    CASE t.pc = "auto_geocode" ->
            \* g = geocoder.ip('me'); if g.ok: self.ubicacion_actual = {...}
            IF ~g.raised /\ g.ok
            THEN <<[t EXCEPT !.pc = "auto_earth"],
                   [m EXCEPT !.ubicacion_actual = GeocodedDict(g)]>>
            ELSE <<[t EXCEPT !.pc = "alt_geocode", !.prov = 1], m>>
      [] t.pc = "auto_earth" ->
            <<[t EXCEPT !.pc = "auto_return"], RecreateEarthLocation(m)>>
      [] t.pc = "auto_return" ->
            <<[t EXCEPT !.pc = "located", !.ubicacion = m.ubicacion_actual], m>>
      [] t.pc = "alt_geocode" ->
            \* for proveedor in proveedores: g = geocoder.<proveedor>('me')
            IF ~g.raised /\ g.ok
            THEN <<[t EXCEPT !.pc = "alt_earth"],
                   [m EXCEPT !.ubicacion_actual = GeocodedDict(g)]>>
            ELSE IF t.prov < Len(Proveedores)
                 THEN <<[t EXCEPT !.prov = t.prov + 1], m>>
                 ELSE <<[t EXCEPT !.pc = "located", !.ubicacion = None], m>>
      [] t.pc = "alt_earth" ->
            <<[t EXCEPT !.pc = "alt_return"], RecreateEarthLocation(m)>>
      [] t.pc = "alt_return" ->
            <<[t EXCEPT !.pc = "located", !.ubicacion = m.ubicacion_actual], m>>

\* obtener_ubicacion run to its return: <<thread state, manager>>; answers[1]
\* is the answer of geocoder.ip, answers[k + 1] that of Proveedores[k]
RECURSIVE RunObtener(_, _, _)
RunObtener(t, m, answers) ==
    IF t.pc = "located"
    THEN <<t, m>>
    ELSE LET r == ObtenerStep(t, m, answers[t.prov + 1])
         IN  RunObtener(r[1], r[2], answers)

obtener_ubicacion(m, answers) == RunObtener(LocatorStart, m, answers)

\* the positions of a thread inside obtener_ubicacion
ObtenerPcs ==
    {"auto_geocode", "auto_earth", "auto_return",
     "alt_geocode", "alt_earth", "alt_return"}

\* the positions at which the step draws a geocoder answer
GeocodePcs == {"auto_geocode", "alt_geocode"}

\* the proveedores_geocoding list of obtener_ubicacion_por_direccion
ProveedoresGeocoding == <<"arcgis", "here", "bing">>

\* obtener_ubicacion_por_direccion, line 171: if g.ok and g.latlng
GeocodedAddress(g) == ~g.raised /\ g.ok /\ g.lat # NO_COORD

\* obtener_ubicacion_por_direccion: the providers that geocode the address
\* among those tried, answers[k] being the answer of ProveedoresGeocoding[k]
AddressHits(answers) ==
    {k \in 1..Len(ProveedoresGeocoding) : GeocodedAddress(answers[k])}

\* obtener_ubicacion_por_direccion: the manager afterwards
obtener_ubicacion_por_direccion(m, answers) ==
    IF AddressHits(answers) = {}
    THEN m
    ELSE LET first == CHOOSE k \in AddressHits(answers) :
                         \A j \in AddressHits(answers) : k <= j
             d == GeocodedDict(answers[first])
         IN  [ubicacion_actual |-> d, earth_location |-> EarthLocationOf(d)]

\* obtener_ubicacion_por_direccion: the value returned
obtener_ubicacion_por_direccion_result(m, answers) ==
    IF AddressHits(answers) = {}
    THEN None
    ELSE obtener_ubicacion_por_direccion(m, answers).ubicacion_actual

(***************************************************************************)
(* CNCApp (comunicacion.py).  Texts are sequences of characters, so that   *)
(* int() of an entry and the f-strings of the commands are computed.       *)
(***************************************************************************)

DigitChars == <<"0", "1", "2", "3", "4", "5", "6", "7", "8", "9">>

IsDigit(c) == \E d \in 1..Len(DigitChars) : DigitChars[d] = c

DigitValue(c) == (CHOOSE d \in 1..Len(DigitChars) : DigitChars[d] = c) - 1

\* the digits of a text after its sign
Unsigned(text) ==
    IF text # <<>> /\ text[1] \in {"-", "+"} THEN Tail(text) ELSE text

\* int(text) raises ValueError
int_raises(text) ==
    \/ Unsigned(text) = <<>>
    \/ \E i \in 1..Len(Unsigned(text)) : ~IsDigit(Unsigned(text)[i])

\* int(text)
int_value(text) ==
    LET n == NumberOf([i \in 1..Len(Unsigned(text)) |-> DigitValue(Unsigned(text)[i])])
    IN  IF text[1] = "-" THEN -n ELSE n

\* str(n), as an f-string writes an int
str(n) ==
    LET digits == Digits(IF n < 0 THEN -n ELSE n)
        chars == [i \in 1..Len(digits) |-> DigitChars[digits[i] + 1]]
    IN  IF n < 0 THEN <<"-">> \o chars ELSE chars

\* sep.join(partes)
RECURSIVE join(_, _)
join(sep, partes) ==
    IF partes = <<>> THEN <<>>
    ELSE IF Len(partes) = 1 THEN partes[1]
    ELSE partes[1] \o sep \o join(sep, Tail(partes))

\* the six jog buttons and the directions their lambdas pass to mover
JogButtons ==
    [btn_up |-> <<0, 1, 0>>, btn_left |-> <<-1, 0, 0>>, btn_right |-> <<1, 0, 0>>,
     btn_down |-> <<0, -1, 0>>, btn_zp |-> <<0, 0, 1>>, btn_zn |-> <<0, 0, -1>>]

\* __init__: no port, the entries at their defaults, btn_des created
\* disabled, habilitar_controles(False)
NewCNCApp ==
    [ser |-> None,
     cmb_port |-> "",
     btn_con |-> "normal",
     btn_des |-> "disabled",
     jog |-> [b \in DOMAIN JogButtons |-> "disabled"],
     var_paso |-> <<"2", "0", "0">>,
     var_vel |-> <<"1", "0", "0", "0">>,
     var_acel |-> <<"4", "0", "0">>]

\* what one handler showed and did besides changing the app: the lines
\* written to the port, the lines added to txt_log, the message boxes
\* shown, the number of calls of readline
NoEffect == [wire |-> <<>>, log |-> <<>>, dialogs |-> <<>>, reads |-> 0]

\* messagebox.showwarning / showerror with this title, and nothing else
Dialog(title) == [NoEffect EXCEPT !.dialogs = <<title>>]

\* self.ser and self.ser.is_open
PortOpen(a) == a.ser # None /\ a.ser.is_open

WidgetState(estado) == IF estado THEN "normal" ELSE "disabled"

\* habilitar_controles with the two Z buttons left out
habilitar_controles_xy(a, estado) ==
    [a EXCEPT !.jog = [b \in DOMAIN JogButtons |->
                          IF b \in {"btn_zp", "btn_zn"} THEN a.jog[b]
                          ELSE WidgetState(estado)]]

\* habilitar_controles
habilitar_controles(a, estado) ==
    [a EXCEPT !.jog = [b \in DOMAIN JogButtons |-> WidgetState(estado)]]

\* conectar; opened is FALSE when serial.Serial raises
conectar(a, opened) ==
    IF a.cmb_port = ""
    THEN [app |-> a, fx |-> Dialog("Atencion")]
    ELSE IF ~opened
    THEN [app |-> a, fx |-> Dialog("Error")]
    ELSE [app |-> [habilitar_controles(
                       [a EXCEPT !.ser = [port |-> a.cmb_port, is_open |-> TRUE]],
                       TRUE)
                   EXCEPT !.btn_con = "disabled", !.btn_des = "normal"],
          fx |-> [NoEffect EXCEPT !.log = << <<"Conectado a", a.cmb_port>> >>]]

\* desconectar; closed is FALSE when ser.close raises, which leaves the
\* port as it was
desconectar(a, closed) ==
    IF PortOpen(a) /\ ~closed
    THEN [app |-> a, fx |-> Dialog("Error")]
    ELSE [app |-> [habilitar_controles(
                       IF PortOpen(a) THEN [a EXCEPT !.ser.is_open = FALSE] ELSE a,
                       FALSE)
                   EXCEPT !.btn_con = "normal", !.btn_des = "disabled"],
          fx |-> [NoEffect EXCEPT !.log = << <<"Desconectado">> >>]]

\* enviar_linea with the is_open half of the test left out
enviar_linea_unchecked(a, linea, io, resp) ==
    IF a.ser = None
    THEN Dialog("Conexion")
    ELSE IF io = "write_raises"
    THEN Dialog("Error")
    ELSE IF io = "read_raises"
    THEN [wire |-> <<linea \o <<"\n">>>>, log |-> << <<">>>", linea>> >>,
          dialogs |-> <<"Error">>, reads |-> 1]
    ELSE [wire |-> <<linea \o <<"\n">>>>,
          log |-> << <<">>>", linea>> >>
                  \o (IF resp # <<>> THEN << <<"<<<", resp>> >> ELSE <<>>),
          dialogs |-> <<>>, reads |-> 1]

\* enviar_linea
enviar_linea(a, linea, io, resp) ==
    IF ~PortOpen(a)
    THEN Dialog("Conexion")
    ELSE IF io = "write_raises"
    THEN Dialog("Error")
    ELSE IF io = "read_raises"
    THEN [wire |-> <<linea \o <<"\n">>>>, log |-> << <<">>>", linea>> >>,
          dialogs |-> <<"Error">>, reads |-> 1]
    ELSE [wire |-> <<linea \o <<"\n">>>>,
          log |-> << <<">>>", linea>> >>
                  \o (IF resp # <<>> THEN << <<"<<<", resp>> >> ELSE <<>>),
          dialogs |-> <<>>, reads |-> 1]

\* no line: the handler returned before it called enviar_linea
NoLine == <<>>

\* int() of an entry raised, or gave a number that is not positive
NotPositiveInt(text) == int_raises(text) \/ int_value(text) <= 0

\* enviar_parametros: the line it hands to enviar_linea
enviar_parametros_linea(a) ==
    IF NotPositiveInt(a.var_vel) \/ NotPositiveInt(a.var_acel)
    THEN NoLine
    ELSE <<"S", " ">> \o str(int_value(a.var_vel)) \o <<" ">>
             \o str(int_value(a.var_acel))

\* enviar_parametros
enviar_parametros(a, io, resp) ==
    IF NotPositiveInt(a.var_vel) \/ NotPositiveInt(a.var_acel)
    THEN Dialog("Parametros")
    ELSE enviar_linea(a, enviar_parametros_linea(a), io, resp)

\* mover with every axis written, the zero ones too
mover_linea_all_axes(a, sx, sy, sz) ==
    IF NotPositiveInt(a.var_paso)
    THEN NoLine
    ELSE LET paso == int_value(a.var_paso)
         IN  <<"M", " ">> \o join(<<" ">>, << <<"X">> \o str(sx * paso),
                                              <<"Y">> \o str(sy * paso),
                                              <<"Z">> \o str(sz * paso) >>)

\* mover: the line it hands to enviar_linea
mover_linea(a, sx, sy, sz) ==
    IF NotPositiveInt(a.var_paso)
    THEN NoLine
    ELSE LET paso == int_value(a.var_paso)
             dx == sx * paso
             dy == sy * paso
             dz == sz * paso
             partes == (IF dx # 0 THEN << <<"X">> \o str(dx) >> ELSE <<>>)
                       \o (IF dy # 0 THEN << <<"Y">> \o str(dy) >> ELSE <<>>)
                       \o (IF dz # 0 THEN << <<"Z">> \o str(dz) >> ELSE <<>>)
         IN  IF partes = <<>> THEN NoLine
             ELSE <<"M", " ">> \o join(<<" ">>, partes)

\* mover
mover(a, sx, sy, sz, io, resp) ==
    IF NotPositiveInt(a.var_paso)
    THEN Dialog("Parametros")
    ELSE IF mover_linea(a, sx, sy, sz) = NoLine
    THEN NoEffect
    ELSE enviar_linea(a, mover_linea(a, sx, sy, sz), io, resp)

(***************************************************************************)
(* AdvancedAstrotrackerGUI: one step per statement that reads or writes    *)
(* a field another thread writes or reads.                                 *)
(***************************************************************************)
\* what the update thread's calls may compute in the running GUI
GuiSunAlts == {ASTRONOMICO_MIN}
GuiAlts == {0, 10}
GuiErrors == {ERROR_RANGE}
\* the geocoder answers drawn in the running GUI: an exception, ok with
\* coordinates
GuiGeoAnswers ==
    { [raised |-> TRUE],
      [raised |-> FALSE, ok |-> TRUE, lat |-> 404168, lon |-> -37038] }

Updaters == 1..MaxUpdaters
Loops == 1..MaxLoops
Detectors == 1..MaxDetectors

\* the steps of setup_simulator
SetupPcs ==
    {"setup_data", "setup_earth", "setup_simulator", "setup_targets",
     "setup_start"}

\* setup_simulator run by a thread at pc, which goes on at nxt; after is
\* where the thread continues when setup_simulator returns; threads are
\* the update_loop threads start_updates can still start
SetupStepIn(threads, pc, nxt, after) ==
    \/ /\ pc = "setup_data"
       /\ ubicacion_data' = ubicacion_mgr.ubicacion_actual
       /\ nxt = "setup_earth"
       /\ UNCHANGED <<earth_location, simulator, available_targets,
                      updaters>>
    \/ /\ pc = "setup_earth"
       /\ earth_location' = get_earth_location(ubicacion_mgr)
       /\ nxt = "setup_simulator"
       /\ UNCHANGED <<ubicacion_data, simulator, available_targets,
                      updaters>>
    \/ /\ pc = "setup_simulator"
       /\ IF earth_location # None
          THEN /\ simulator' = NewSimulator(earth_location)
               /\ nxt = "setup_targets"
          ELSE /\ nxt = after
               /\ UNCHANGED simulator
       /\ UNCHANGED <<ubicacion_data, earth_location, available_targets, updaters>>
    \/ /\ pc = "setup_targets"
       /\ available_targets' = get_catalog_objects(simulator)
       /\ nxt = "setup_start"
       /\ UNCHANGED <<ubicacion_data, earth_location, simulator,
                      updaters>>
    \/ /\ pc = "setup_start"
       \* start_updates: a new update_loop thread
       /\ \E u \in threads :
             /\ updaters[u] = "unstarted"
             /\ \A v \in threads : v < u => updaters[v] # "unstarted"
             /\ updaters' = [updaters EXCEPT ![u] = "loop"]
       /\ nxt = after
       /\ UNCHANGED <<ubicacion_data, earth_location, simulator,
                      available_targets>>

SetupStep(pc, nxt, after) == SetupStepIn(Updaters, pc, nxt, after)

\* threading.Thread(target=self.detect_location_async).start()
StartDetector ==
    \E d \in Detectors :
        /\ detectors[d].pc = "unstarted"
        /\ \A e \in Detectors : e < d => detectors[e].pc # "unstarted"
        /\ detectors' = [detectors EXCEPT ![d] = LocatorStart]

\* a thread that has not been started
Unstarted == [pc |-> "unstarted", prov |-> 0, ubicacion |-> None]

MainAt(pc) == main.pc = pc
MainGoto(pc) == main' = [main EXCEPT !.pc = pc]

\* the variables the advanced GUI's threads leave alone
advOther == <<sim, ret, frame, app>>

AdvKeyEscape ==
    /\ MainAt("idle")
    /\ running' = FALSE
    /\ UNCHANGED <<advOther, ubicacion_mgr, archivo, ubicacion_data, earth_location,
                   advVars, main, detectors>>

\* run: the while self.running loop ends
AdvExit ==
    /\ MainAt("idle")
    /\ ~running
    /\ MainGoto("exited")
    /\ UNCHANGED <<advOther, ubicacion_mgr, archivo, ubicacion_data, earth_location,
                   running, advVars, detectors>>

\* the index kept inside the list without wrapping
navigate_clamped(index, delta, targets) ==
    IF targets # <<>>
    THEN IF index + delta < 0 THEN 0
         ELSE IF index + delta >= Len(targets) THEN Len(targets) - 1
         ELSE index + delta
    ELSE index

\* lines 574-575 and 579-580: the index after K_UP or K_DOWN
navigate(index, delta, targets) ==
    IF targets # <<>>
    THEN (index + delta) % Len(targets)
    ELSE index

\* K_UP (delta = -1) and K_DOWN (delta = 1)
Navigate(delta) ==
    /\ MainAt("idle")
    /\ selected_target_index' =
          navigate(selected_target_index, delta, available_targets)
    /\ UNCHANGED <<advOther, ubicacion_mgr, archivo, ubicacion_data, earth_location,
                   running, simulator, trackVars, astroVars,
                   available_targets, updaters, main, detectors>>

AdvKeyUp == Navigate(-1)

AdvKeyDown == Navigate(1)

\* K_RETURN, lines 584-586
AdvKeyEnter ==
    /\ MainAt("idle")
    /\ IF available_targets # <<>> /\ simulator # None
       THEN LET target_name == available_targets[selected_target_index + 1]
            IN  /\ simulator' = set_target_state(simulator, target_name)
                /\ main' = IF set_target_result(simulator, target_name)
                           THEN [pc |-> "enter_target", target_name |-> target_name]
                           ELSE main
       ELSE UNCHANGED <<simulator, main>>
    /\ UNCHANGED <<advOther, ubicacion_mgr, archivo, ubicacion_data, earth_location,
                   running, trackVars, astroVars, selVars,
                   updaters, detectors>>

\* line 587
AdvEnterTarget ==
    /\ MainAt("enter_target")
    /\ current_target' = main.target_name
    /\ MainGoto("enter_status")
    /\ UNCHANGED <<advOther, ubicacion_mgr, archivo, ubicacion_data, earth_location,
                   running, simulator, target_coords, telescope_pos,
                   tracking_status, astroVars, selVars, updaters, detectors>>

\* line 588
AdvEnterStatus ==
    /\ MainAt("enter_status")
    /\ tracking_status' = <<"Iniciando seguimiento de", main.target_name>>
    \* the local target_name is dead when the handler returns
    /\ main' = [pc |-> "idle", target_name |-> NoName]
    /\ UNCHANGED <<advOther, ubicacion_mgr, archivo, ubicacion_data, earth_location,
                   running, simulator, current_target, target_coords,
                   telescope_pos, astroVars, selVars, updaters, detectors>>

\* K_SPACE, lines 592-593
AdvKeySpace ==
    /\ MainAt("idle")
    /\ IF simulator # None
       THEN /\ simulator' = [simulator EXCEPT !.tracking_active = FALSE]
            /\ MainGoto("stop_target")
       ELSE UNCHANGED <<simulator, main>>
    /\ UNCHANGED <<advOther, ubicacion_mgr, archivo, ubicacion_data, earth_location,
                   running, trackVars, astroVars, selVars,
                   updaters, detectors>>

\* line 594
AdvStopTarget ==
    /\ MainAt("stop_target")
    /\ current_target' = NoName
    /\ MainGoto("stop_coords")
    /\ UNCHANGED <<advOther, ubicacion_mgr, archivo, ubicacion_data, earth_location,
                   running, simulator, target_coords, telescope_pos,
                   tracking_status, astroVars, selVars, updaters, detectors>>

\* line 595
AdvStopCoords ==
    /\ MainAt("stop_coords")
    /\ target_coords' = None
    /\ MainGoto("stop_telescope")
    /\ UNCHANGED <<advOther, ubicacion_mgr, archivo, ubicacion_data, earth_location,
                   running, simulator, current_target, telescope_pos,
                   tracking_status, astroVars, selVars, updaters, detectors>>

\* line 596
AdvStopTelescope ==
    /\ MainAt("stop_telescope")
    /\ telescope_pos' = None
    /\ MainGoto("stop_status")
    /\ UNCHANGED <<advOther, ubicacion_mgr, archivo, ubicacion_data, earth_location,
                   running, simulator, current_target, target_coords,
                   tracking_status, astroVars, selVars, updaters, detectors>>

\* line 597
AdvStopStatus ==
    /\ MainAt("stop_status")
    /\ tracking_status' = <<"Seguimiento detenido", NoName>>
    /\ MainGoto("idle")
    /\ UNCHANGED <<advOther, ubicacion_mgr, archivo, ubicacion_data, earth_location,
                   running, simulator, current_target, target_coords,
                   telescope_pos, astroVars, selVars, updaters, detectors>>

\* K_r
AdvKeyR ==
    /\ MainAt("idle")
    /\ StartDetector
    /\ UNCHANGED <<advOther, ubicacion_mgr, archivo, ubicacion_data, earth_location,
                   running, advVars, main>>

\* K_s
AdvKeyS ==
    /\ MainAt("idle")
    /\ archivo' = IF ubicacion_data # None
                  THEN guardar_ubicacion(ubicacion_mgr, archivo)
                  ELSE archivo
    /\ UNCHANGED <<advOther, ubicacion_mgr, ubicacion_data, earth_location,
                   running, advVars, main, detectors>>

\* K_m: establecer_ubicacion_manual, lines 118-127 of ubicacion.py
AdvKeyM ==
    /\ MainAt("idle")
    /\ ubicacion_mgr' =
          [ubicacion_mgr EXCEPT !.ubicacion_actual =
              ManualDict(Cordoba.latitud, Cordoba.longitud, Cordoba.altitud)]
    /\ MainGoto("manual_earth")
    /\ UNCHANGED <<advOther, archivo, ubicacion_data, earth_location,
                   running, advVars, detectors>>

\* establecer_ubicacion_manual, lines 130-134 of ubicacion.py
AdvManualEarth ==
    /\ MainAt("manual_earth")
    /\ ubicacion_mgr' =
          [ubicacion_mgr EXCEPT !.earth_location =
              EarthLocation(Cordoba.latitud, Cordoba.longitud, Cordoba.altitud)]
    /\ MainGoto("setup_data")
    /\ UNCHANGED <<advOther, archivo, ubicacion_data, earth_location,
                   running, advVars, detectors>>

\* line 617: setup_simulator on the main thread
AdvMainSetup ==
    /\ main.pc \in SetupPcs
    /\ \E nxt \in SetupPcs \cup {"idle"} :
          /\ SetupStep(main.pc, nxt, "idle")
          /\ MainGoto(nxt)
    /\ UNCHANGED <<advOther, ubicacion_mgr, archivo, running, trackVars, astroVars,
                   selected_target_index, detectors>>

\* what an update_loop thread leaves alone
updOther ==
    <<advOther, ubicacion_mgr, archivo, ubicacion_data, earth_location,
      running, simulator, selVars, main, detectors>>

UpdAt(u, pc) == updaters[u] = pc
UpdGoto(u, pc) == updaters' = [updaters EXCEPT ![u] = pc]

\* the loop taken as while True
UpdLoopForever(u) ==
    /\ UpdAt(u, "loop")
    /\ UpdGoto(u, "astro")
    /\ UNCHANGED <<updOther, trackVars, astroVars>>

\* while self.running (time.sleep(1) precedes each later test)
UpdLoop(u) ==
    /\ UpdAt(u, "loop")
    /\ UpdGoto(u, IF running THEN "astro" ELSE "exited")
    /\ UNCHANGED <<updOther, trackVars, astroVars>>

\* lines 162-171: the early return, then sidereal_time and sun_moon_info,
\* which no other thread writes
UpdAstro(u) ==
    /\ UpdAt(u, "astro")
    /\ IF simulator = None
       THEN /\ UpdGoto(u, "loop")
            /\ UNCHANGED astroVars
       ELSE /\ IF earth_location # None
               THEN sidereal_time' \in SiderealTimes
               ELSE UNCHANGED sidereal_time
            /\ \E sun_alt \in GuiSunAlts :
                  sun_moon_info' = get_sun_moon_info(simulator, sun_alt, 0, 0, 0, TRUE)
            /\ UpdGoto(u, "target")
    /\ UNCHANGED <<updOther, trackVars>>

\* line 174
UpdTarget(u) ==
    /\ UpdAt(u, "target")
    /\ UpdGoto(u, IF current_target # NoName THEN "coords" ELSE "loop")
    /\ UNCHANGED <<updOther, trackVars, astroVars>>

\* line 175
UpdCoords(u) ==
    /\ UpdAt(u, "coords")
    /\ \E alt \in GuiAlts, ok \in BOOLEAN :
          target_coords' = get_target_coordinates(simulator, alt, 0, ok)
    /\ UpdGoto(u, "telescope")
    /\ UNCHANGED <<updOther, current_target, telescope_pos, tracking_status, astroVars>>

\* line 176
UpdTelescope(u) ==
    /\ UpdAt(u, "telescope")
    /\ \E e \in GuiErrors :
          telescope_pos' = simulate_telescope_position(target_coords, e, 0)
    /\ UpdGoto(u, "status")
    /\ UNCHANGED <<updOther, current_target, target_coords, tracking_status, astroVars>>

\* lines 179-182
UpdStatus(u) ==
    /\ UpdAt(u, "status")
    /\ tracking_status' =
          IF /\ target_coords # None
             /\ "is_visible" \in DOMAIN target_coords
             /\ target_coords.is_visible
          THEN <<"Siguiendo", current_target>>
          ELSE <<"no visible", current_target>>
    /\ UpdGoto(u, "loop")
    /\ UNCHANGED <<updOther, current_target, target_coords, telescope_pos, astroVars>>

\* what a detect_location_async thread leaves alone
detOther == <<advOther, running, trackVars, astroVars, selected_target_index, main>>

DetGoto(d, pc) == detectors' = [detectors EXCEPT ![d].pc = pc]

\* lines 138-139, 143: obtener_ubicacion as one call, the four geocoders
\* answering as in answers
AdvDetObtener(d) ==
    /\ detectors[d].pc = "auto_geocode"
    /\ \E answers \in [1..(Len(Proveedores) + 1) -> GuiGeoAnswers] :
          LET r == obtener_ubicacion(ubicacion_mgr, answers)
          IN  /\ ubicacion_mgr' = r[2]
              \* the locals of the call are dead once line 139 has tested them
              /\ detectors' = [detectors EXCEPT ![d] =
                    [pc |-> IF r[1].ubicacion # None THEN "save" ELSE "done",
                     prov |-> 0, ubicacion |-> None]]
    /\ UNCHANGED <<detOther, archivo, ubicacion_data, earth_location,
                   simulator, available_targets, updaters>>

\* line 140
AdvDetSave(d) ==
    /\ detectors[d].pc = "save"
    /\ archivo' = guardar_ubicacion(ubicacion_mgr, archivo)
    /\ DetGoto(d, "setup_data")
    /\ UNCHANGED <<detOther, ubicacion_mgr, ubicacion_data, earth_location,
                   simulator, available_targets, updaters>>

\* line 141: setup_simulator on the detection thread
AdvDetSetup(d) ==
    /\ detectors[d].pc \in SetupPcs
    /\ \E nxt \in SetupPcs \cup {"done"} :
          /\ SetupStep(detectors[d].pc, nxt, "done")
          /\ DetGoto(d, nxt)
    /\ UNCHANGED <<detOther, ubicacion_mgr, archivo>>

\* the files the program may find when it starts: none, or one saved earlier
InitialFiles ==
    {None, json_dump(ManualDict(Cordoba.latitud, Cordoba.longitud, Cordoba.altitud))}

\* the direct simulator is not used by the GUIs
SimUnused == sim = NewSimulator(None) /\ ret = [op |-> "init"] /\ app = NewCNCApp

\* AdvancedAstrotrackerGUI.__init__, initialize_system included
AdvInit ==
    /\ SimUnused
    /\ frame = None
    /\ archivo \in InitialFiles
    /\ running = TRUE
    /\ current_target = NoName
    /\ target_coords = None
    /\ telescope_pos = None
    /\ tracking_status = <<"Inactivo", NoName>>
    /\ sun_moon_info = None
    /\ sidereal_time = "00:00:00"
    /\ selected_target_index = 0
    /\ main = [pc |-> "idle", target_name |-> NoName]
    /\ IF archivo = None
       THEN \* cargar_ubicacion: FileNotFoundError; lines 109-112
            /\ ubicacion_mgr = NewManager
            /\ ubicacion_data = None
            /\ earth_location = None
            /\ simulator = None
            /\ available_targets = <<>>
            /\ updaters = [u \in Loops |-> "unstarted"]
            /\ detectors = [d \in Detectors |->
                               IF d = 1 THEN LocatorStart ELSE Unstarted]
       ELSE \* lines 105-107 and setup_simulator
            /\ ubicacion_mgr = cargar_ubicacion(NewManager, archivo)
            /\ ubicacion_data = ubicacion_mgr.ubicacion_actual
            /\ earth_location = get_earth_location(ubicacion_mgr)
            /\ simulator = IF earth_location # None
                           THEN NewSimulator(earth_location) ELSE None
            /\ available_targets = IF earth_location # None
                                   THEN get_catalog_objects(simulator) ELSE <<>>
            /\ updaters = [u \in Loops |->
                              IF u = 1 /\ earth_location # None
                              THEN "loop" ELSE "unstarted"]
            /\ detectors = [d \in Detectors |-> Unstarted]

AdvNext ==
    \/ AdvKeyEscape
    \/ AdvExit
    \/ AdvKeyUp
    \/ AdvKeyDown
    \/ AdvKeyEnter
    \/ AdvEnterTarget
    \/ AdvEnterStatus
    \/ AdvKeySpace
    \/ AdvStopTarget
    \/ AdvStopCoords
    \/ AdvStopTelescope
    \/ AdvStopStatus
    \/ AdvKeyR
    \/ AdvKeyS
    \/ AdvKeyM
    \/ AdvManualEarth
    \/ AdvMainSetup
    \/ \E u \in Updaters :
          \/ UpdLoop(u)
          \/ UpdAstro(u)
          \/ UpdTarget(u)
          \/ UpdCoords(u)
          \/ UpdTelescope(u)
          \/ UpdStatus(u)
    \/ \E d \in Detectors :
          \/ AdvDetObtener(d)
          \/ AdvDetSave(d)
          \/ AdvDetSetup(d)

SpecAdv == AdvInit /\ [][AdvNext]_vars

(***************************************************************************)
(* setup_simulator and the update loop with MaxLoops update_loop threads.  *)
(***************************************************************************)

\* line 617: setup_simulator on the main thread
LoopsMainSetup ==
    /\ main.pc \in SetupPcs
    /\ \E nxt \in SetupPcs \cup {"idle"} :
          /\ SetupStepIn(Loops, main.pc, nxt, "idle")
          /\ MainGoto(nxt)
    /\ UNCHANGED <<advOther, ubicacion_mgr, archivo, running, trackVars, astroVars,
                   selected_target_index, detectors>>

\* one step of the update_loop thread u
UpdStep(u) ==
    \/ UpdLoop(u)
    \/ UpdAstro(u)
    \/ UpdTarget(u)
    \/ UpdCoords(u)
    \/ UpdTelescope(u)
    \/ UpdStatus(u)

(***************************************************************************)
(* AstrotrackerGUI (AppPC/astrotracker_gui.py): one step per statement     *)
(* that reads or writes the manager or the GUI's observer fields.          *)
(***************************************************************************)
\* the fields of the advanced GUI, which this GUI does not have
guiOther == <<sim, ret, advVars, app>>

\* AstrotrackerGUI.__init__, load_location included
\* the files AstrotrackerGUI may find: none, one saved earlier, one saved
\* without its 'latitud'
GuiInitialFiles ==
    InitialFiles \cup {json_dump([longitud |-> Cordoba.longitud,
                                  altitud |-> Cordoba.altitud])}

GuiInit ==
    /\ SimUnused
    /\ frame = None
    /\ archivo \in GuiInitialFiles
    /\ running = TRUE
    /\ current_target = NoName
    /\ target_coords = None
    /\ telescope_pos = None
    /\ tracking_status = <<"Inactivo", NoName>>
    /\ sun_moon_info = None
    /\ sidereal_time = "00:00:00"
    /\ selected_target_index = 0
    /\ simulator = None
    /\ available_targets = <<>>
    /\ updaters = [u \in Loops |-> "unstarted"]
    /\ main = [pc |-> "idle", target_name |-> NoName]
    /\ ubicacion_mgr = cargar_ubicacion(NewManager, archivo)
    /\ IF cargar_ubicacion_result(NewManager, archivo) = None
       THEN \* lines 85-89
            /\ ubicacion_data = None
            /\ earth_location = None
            /\ detectors = [d \in Detectors |->
                               IF d = 1 THEN LocatorStart ELSE Unstarted]
       ELSE \* lines 80-83
            /\ ubicacion_data = ubicacion_mgr.ubicacion_actual
            /\ earth_location = get_earth_location(ubicacion_mgr)
            /\ detectors = [d \in Detectors |-> Unstarted]

\* draw_location_panel, lines 151-159: the f-strings raise a KeyError for a
\* missing 'latitud', 'longitud' or 'altitud' and a TypeError for a latitud
\* or longitud that is None; run does not catch it
DrawRaises(d) ==
    /\ d # None
    /\ \/ Get(d, "latitud", NO_COORD) = NO_COORD
       \/ Get(d, "longitud", NO_COORD) = NO_COORD
       \/ "altitud" \notin DOMAIN d

\* run: one frame drawn between two calls of handle_events;
\* draw_location_panel shows ubicacion_data, draw_coordinates_display shows
\* earth_location
GuiDraw ==
    /\ MainAt("idle")
    /\ running
    /\ IF DrawRaises(ubicacion_data)
       THEN /\ MainGoto("crashed")
            /\ UNCHANGED frame
       ELSE /\ frame' = [ubicacion_data |-> ubicacion_data,
                         earth_location |-> earth_location]
            /\ UNCHANGED main
    /\ UNCHANGED <<guiOther, ubicacion_mgr, archivo, ubicacion_data, earth_location,
                   running, detectors>>

GuiKeyEscape ==
    /\ MainAt("idle")
    /\ running' = FALSE
    /\ UNCHANGED <<guiOther, ubicacion_mgr, archivo, ubicacion_data, earth_location,
                   frame, main, detectors>>

GuiExit ==
    /\ MainAt("idle")
    /\ ~running
    /\ MainGoto("exited")
    /\ UNCHANGED <<guiOther, ubicacion_mgr, archivo, ubicacion_data, earth_location,
                   running, frame, detectors>>

\* K_r, lines 332-335
GuiKeyR ==
    /\ MainAt("idle")
    /\ StartDetector
    /\ UNCHANGED <<guiOther, ubicacion_mgr, archivo, ubicacion_data, earth_location,
                   running, frame, main>>

\* K_s, lines 338-340
GuiKeyS ==
    /\ MainAt("idle")
    /\ archivo' = IF ubicacion_data # None
                  THEN guardar_ubicacion(ubicacion_mgr, archivo)
                  ELSE archivo
    /\ UNCHANGED <<guiOther, ubicacion_mgr, ubicacion_data, earth_location,
                   running, frame, main, detectors>>

\* K_m: establecer_ubicacion_manual, lines 118-127 of ubicacion.py
GuiKeyM ==
    /\ MainAt("idle")
    /\ ubicacion_mgr' =
          [ubicacion_mgr EXCEPT !.ubicacion_actual =
              ManualDict(Cordoba.latitud, Cordoba.longitud, Cordoba.altitud)]
    /\ MainGoto("manual_earth")
    /\ UNCHANGED <<guiOther, archivo, ubicacion_data, earth_location,
                   running, frame, detectors>>

\* establecer_ubicacion_manual, lines 130-134 of ubicacion.py
GuiManualEarth ==
    /\ MainAt("manual_earth")
    /\ ubicacion_mgr' =
          [ubicacion_mgr EXCEPT !.earth_location =
              EarthLocation(Cordoba.latitud, Cordoba.longitud, Cordoba.altitud)]
    /\ MainGoto("manual_data")
    /\ UNCHANGED <<guiOther, archivo, ubicacion_data, earth_location,
                   running, frame, detectors>>

\* line 346
GuiManualData ==
    /\ MainAt("manual_data")
    /\ ubicacion_data' = ubicacion_mgr.ubicacion_actual
    /\ MainGoto("manual_location")
    /\ UNCHANGED <<guiOther, ubicacion_mgr, archivo, earth_location,
                   running, frame, detectors>>

\* line 347
GuiManualLocation ==
    /\ MainAt("manual_location")
    /\ earth_location' = get_earth_location(ubicacion_mgr)
    /\ MainGoto("idle")
    /\ UNCHANGED <<guiOther, ubicacion_mgr, archivo, ubicacion_data,
                   running, frame, detectors>>

\* what a detection thread of this GUI leaves alone
gdetOther == <<guiOther, running, frame, main>>

\* line 96: obtener_ubicacion, statement by statement
GuiDetObtener(d) ==
    /\ detectors[d].pc \in ObtenerPcs
    /\ \E g \in IF detectors[d].pc \in GeocodePcs THEN GeoAnswers
                 ELSE {[raised |-> TRUE]} :
          LET r == ObtenerStep(detectors[d], ubicacion_mgr, g)
          IN  /\ detectors' = [detectors EXCEPT ![d] = r[1]]
              /\ ubicacion_mgr' = r[2]
    /\ UNCHANGED <<gdetOther, archivo, ubicacion_data, earth_location>>

\* lines 97-98: if ubicacion: self.ubicacion_data = ubicacion
GuiDetData(d) ==
    /\ detectors[d].pc = "located"
    /\ IF detectors[d].ubicacion # None
       THEN /\ ubicacion_data' = detectors[d].ubicacion
            /\ detectors' = [detectors EXCEPT ![d] =
                  [pc |-> "detected_location", prov |-> 0, ubicacion |-> None]]
       ELSE /\ detectors' = [detectors EXCEPT ![d] =
                  [pc |-> "done", prov |-> 0, ubicacion |-> None]]
            /\ UNCHANGED ubicacion_data
    /\ UNCHANGED <<gdetOther, ubicacion_mgr, archivo, earth_location>>

\* line 99
GuiDetLocation(d) ==
    /\ detectors[d].pc = "detected_location"
    /\ earth_location' = get_earth_location(ubicacion_mgr)
    /\ DetGoto(d, "save")
    /\ UNCHANGED <<gdetOther, ubicacion_mgr, archivo, ubicacion_data>>

\* line 102
GuiDetSave(d) ==
    /\ detectors[d].pc = "save"
    /\ archivo' = guardar_ubicacion(ubicacion_mgr, archivo)
    /\ DetGoto(d, "done")
    /\ UNCHANGED <<gdetOther, ubicacion_mgr, ubicacion_data, earth_location>>

GuiNext ==
    \/ GuiDraw
    \/ GuiKeyEscape
    \/ GuiExit
    \/ GuiKeyR
    \/ GuiKeyS
    \/ GuiKeyM
    \/ GuiManualEarth
    \/ GuiManualData
    \/ GuiManualLocation
    \/ \E d \in Detectors :
          \/ GuiDetObtener(d)
          \/ GuiDetData(d)
          \/ GuiDetLocation(d)
          \/ GuiDetSave(d)

SpecGui == GuiInit /\ [][GuiNext]_vars

\* the GUIs are not running while the simulator is driven directly
GuiUnused ==
    /\ ubicacion_mgr = NewManager
    /\ archivo = None
    /\ simulator = None
    /\ ubicacion_data = None
    /\ earth_location = None
    /\ running = FALSE
    /\ current_target = NoName
    /\ target_coords = None
    /\ telescope_pos = None
    /\ tracking_status = <<"Inactivo", NoName>>
    /\ sun_moon_info = None
    /\ sidereal_time = "00:00:00"
    /\ available_targets = <<>>
    /\ selected_target_index = 0
    /\ frame = None
    /\ main = [pc |-> "exited", target_name |-> NoName]
    /\ updaters = [u \in Loops |-> "unstarted"]
    /\ detectors = [d \in Detectors |-> Unstarted]
    /\ app = NewCNCApp

guiVars ==
    <<ubicacion_mgr, archivo, simulator, ubicacion_data, earth_location,
      running, current_target, target_coords, telescope_pos,
      tracking_status, sun_moon_info, sidereal_time, available_targets,
      selected_target_index, frame, main, updaters, detectors, app>>

(***************************************************************************)
(* The simulator driven call by call.                                      *)
(***************************************************************************)
SimInit ==
    /\ sim \in {NewSimulator(None),
                NewSimulator(EarthLocation(Cordoba.latitud, Cordoba.longitud,
                                           Cordoba.altitud))}
    /\ ret = [op |-> "init"]
    /\ GuiUnused

Call_set_target(name) ==
    /\ sim' = set_target_state(sim, name)
    /\ ret' = [op |-> "set_target", arg |-> name, before |-> sim,
               val |-> set_target_result(sim, name)]

Call_get_target_coordinates(alt, az, ok) ==
    /\ ret' = [op |-> "get_target_coordinates",
               val |-> get_target_coordinates(sim, alt, az, ok)]
    /\ UNCHANGED sim

Call_get_sun_moon_info(sun_alt, sun_az, moon_alt, moon_az, ok) ==
    /\ ret' = [op |-> "get_sun_moon_info",
               val |-> get_sun_moon_info(sim, sun_alt, sun_az, moon_alt, moon_az, ok)]
    /\ UNCHANGED sim

Call_imprimir_info_observacion(luna_elevacion) ==
    /\ ret' = [op |-> "imprimir_info_observacion",
               altitud |-> luna_elevacion,
               visible |-> LunaVisibleLine(luna_elevacion)]
    /\ UNCHANGED sim

Call_vega_example(vega_elevacion) ==
    /\ ret' = [op |-> "vega_example",
               altitud |-> vega_elevacion,
               visible |-> VegaVisibleLine(vega_elevacion)]
    /\ UNCHANGED sim

Call_get_catalog_objects ==
    /\ ret' = [op |-> "get_catalog_objects", val |-> get_catalog_objects(sim)]
    /\ UNCHANGED sim

Call_calculate_tracking_rates ==
    /\ ret' = [op |-> "calculate_tracking_rates", val |-> calculate_tracking_rates(sim)]
    /\ UNCHANGED sim

\* simulate_telescope_position on the coordinates just returned, as
\* update_astronomical_data calls it
Call_simulate_telescope_position(error_alt, error_az) ==
    /\ ret.op = "get_target_coordinates"
    /\ ret' = [op |-> "simulate_telescope_position",
               arg |-> ret.val,
               val |-> simulate_telescope_position(ret.val, error_alt, error_az)]
    /\ UNCHANGED sim

\* the AstroTrackerConUbicacion of the same observer as the simulator
Tracker == [earth_location |-> sim.earth_location]

\* the elevations drawn for the tracker's calls
TrackerElevs == {-100, CIVIL_MIN - 1, CIVIL_MIN, 0, ELEVACION_MINIMA + 1}

\* calcular_posicion_sol, calcular_posicion_luna
Call_calcular_posicion(body, elevacion, azimuth) ==
    /\ ret' = [op |-> body, val |-> calcular_posicion(Tracker, elevacion, azimuth)]
    /\ UNCHANGED sim

\* calcular_posicion_estrella with the ra and dec of a row of the table
Call_calcular_posicion_estrella(star, elevacion, azimuth) ==
    /\ ret' = [op |-> "calcular_posicion_estrella",
               val |-> calcular_posicion_estrella(Tracker, star.ra, star.dec,
                                                  elevacion, azimuth)]
    /\ UNCHANGED sim

Call_obtener_info_observacion(sol_elevacion, luna_elevacion, azimuth) ==
    /\ ret' = [op |-> "obtener_info_observacion",
               val |-> obtener_info_observacion(Tracker, sol_elevacion,
                                                luna_elevacion, azimuth)]
    /\ UNCHANGED sim

SimCalls ==
    \/ Call_get_catalog_objects
    \/ Call_calculate_tracking_rates
    \/ \E error_alt \in TrackingErrors, error_az \in TrackingErrors :
          Call_simulate_telescope_position(error_alt, error_az)
    \/ \E body \in {"calcular_posicion_sol", "calcular_posicion_luna"},
          e \in TrackerElevs, az \in Azs :
          Call_calcular_posicion(body, e, az)
    \/ \E e \in TrackerElevs : Call_calcular_posicion_estrella(CatalogTable[2], e, 0)
    \/ \E e \in TrackerElevs, luna \in {0, LUNA_MAX - 1, LUNA_MAX} :
          Call_obtener_info_observacion(e, luna, 0)
    \/ \E name \in {InitialCatalog[i].name : i \in 1..Len(InitialCatalog)} \cup {UnknownName} :
          Call_set_target(name)
    \/ \E alt \in Alts, az \in Azs, ok \in BOOLEAN :
          Call_get_target_coordinates(alt, az, ok)
    \/ \E sun_alt \in Alts, moon_alt \in MoonAlts, az \in Azs, ok \in BOOLEAN :
          Call_get_sun_moon_info(sun_alt, az, moon_alt, az, ok)
    \/ \E e \in Alts : Call_imprimir_info_observacion(e)
    \/ \E e \in Alts : Call_vega_example(e)

SimNext == SimCalls /\ UNCHANGED guiVars

SpecSim == SimInit /\ [][SimNext]_vars

(***************************************************************************)
(* The simulator driven call by call with the clock in view: the sky is a  *)
(* function of the instant observed, and the instant observed is the       *)
(* timestamp argument or, without one, Time.now().                         *)
(***************************************************************************)
Instants == 1..NumInstants

\* timestamp=None
NoInstant == 0

\* lines 65-68: observing_time = Time.now() if timestamp is None
ObservingTime(timestamp, now) == IF timestamp = NoInstant THEN now ELSE timestamp

\* what astropy's transform gives for the instant t, in tenths of a degree:
\* the sky turns, so different instants give different positions
AltAt(t) == (t - 2) * 100
AzAt(t) == 900 + 150 * t

\* get_target_coordinates(timestamp) called while the clock shows now
Clock_get_target_coordinates(timestamp, now) ==
    /\ ret' = [op |-> "get_target_coordinates",
               timestamp |-> timestamp,
               now |-> now,
               val |-> LET t == ObservingTime(timestamp, now)
                       IN  get_target_coordinates(sim, AltAt(t), AzAt(t), TRUE)]
    /\ UNCHANGED sim

\* get_sun_moon_info() called while the clock shows now: it takes no
\* instant and line 183 reads Time.now()
Clock_get_sun_moon_info(now) ==
    /\ ret' = [op |-> "get_sun_moon_info",
               timestamp |-> NoInstant,
               now |-> now,
               val |-> get_sun_moon_info(sim, AltAt(now), AzAt(now),
                                         -AltAt(now), AzAt(now), TRUE)]
    /\ UNCHANGED sim

ClockCalls ==
    \/ \E name \in {InitialCatalog[i].name : i \in 1..Len(InitialCatalog)} :
          Call_set_target(name)
    \/ \E timestamp \in Instants \cup {NoInstant}, now \in Instants :
          Clock_get_target_coordinates(timestamp, now)
    \/ \E now \in Instants : Clock_get_sun_moon_info(now)

ClockNext == ClockCalls /\ UNCHANGED guiVars

SpecClock == SimInit /\ [][ClockNext]_vars

(***************************************************************************)
(* The CNCApp driven handler by handler: every command a widget is bound   *)
(* to, the choice of a port and the typing of the three entries.           *)
(***************************************************************************)

\* what list_ports.comports() offers
Ports == {"COM3"}

\* what can be typed in 'Paso'
PasoTexts == {<<"2", "0", "0">>, <<"0">>, <<"-", "5">>, <<"1", ".", "5">>, <<>>}
\* what can be typed in 'Vel max' and in 'Aceleracion'
VelAcelTexts ==
    {<< <<"1", "0", "0", "0">>, <<"4", "0", "0">> >>,
     << <<"0">>, <<"4", "0", "0">> >>,
     << <<"1", "0", "0", "0">>, <<"x">> >>}

\* the directions mover is called with: no axis, one, two and three
MoverArgs == {<<0, 0, 0>>, <<1, 0, 0>>, <<0, 0, -1>>, <<1, -1, 0>>, <<-1, 1, 1>>}

\* the port's outcome and its answer
PortReplies ==
    {<<"ok", <<"o", "k">> >>, <<"ok", <<>> >>, <<"read_raises", <<>> >>,
     <<"write_raises", <<>> >>}

cncOther ==
    <<sim, ubicacion_mgr, archivo, simulator, ubicacion_data, earth_location,
      running, current_target, target_coords, telescope_pos,
      tracking_status, sun_moon_info, sidereal_time, available_targets,
      selected_target_index, frame, main, updaters, detectors>>

CncInit ==
    /\ sim = NewSimulator(None)
    /\ ret = [op |-> "init"]
    /\ GuiUnused

\* the user picks a port in cmb_port
Cnc_select_port(port) ==
    /\ app' = [app EXCEPT !.cmb_port = port]
    /\ ret' = [op |-> "select_port", arg |-> port, before |-> app,
               linea |-> NoLine, fx |-> NoEffect]

\* the user types in 'Paso'
Cnc_type_paso(paso) ==
    /\ app' = [app EXCEPT !.var_paso = paso]
    /\ ret' = [op |-> "type_paso", arg |-> paso, before |-> app,
               linea |-> NoLine, fx |-> NoEffect]

\* the user types in 'Vel max' and 'Aceleracion'
Cnc_type_vel_acel(vel, acel) ==
    /\ app' = [app EXCEPT !.var_vel = vel, !.var_acel = acel]
    /\ ret' = [op |-> "type_vel_acel", arg |-> <<vel, acel>>, before |-> app,
               linea |-> NoLine, fx |-> NoEffect]

Cnc_conectar(opened) ==
    /\ app' = conectar(app, opened).app
    /\ ret' = [op |-> "conectar", arg |-> opened, before |-> app,
               linea |-> NoLine, fx |-> conectar(app, opened).fx]

Cnc_desconectar(closed) ==
    /\ app' = desconectar(app, closed).app
    /\ ret' = [op |-> "desconectar", arg |-> closed, before |-> app,
               linea |-> NoLine, fx |-> desconectar(app, closed).fx]

Cnc_mover(sx, sy, sz, io, resp) ==
    /\ ret' = [op |-> "mover", arg |-> <<sx, sy, sz>>, before |-> app,
               linea |-> mover_linea(app, sx, sy, sz),
               fx |-> mover(app, sx, sy, sz, io, resp)]
    /\ UNCHANGED app

\* a click on one of the six jog buttons, which takes one that is enabled
Cnc_jog(b, io, resp) ==
    /\ app.jog[b] = "normal"
    /\ ret' = [op |-> b, arg |-> JogButtons[b], before |-> app,
               linea |-> mover_linea(app, JogButtons[b][1], JogButtons[b][2],
                                     JogButtons[b][3]),
               fx |-> mover(app, JogButtons[b][1], JogButtons[b][2],
                            JogButtons[b][3], io, resp)]
    /\ UNCHANGED app

\* 'Habilitar (EN)' and 'Deshabilitar (DI)'
Cnc_enviar_linea(linea, io, resp) ==
    /\ ret' = [op |-> "enviar_linea", arg |-> linea, before |-> app,
               linea |-> linea, fx |-> enviar_linea(app, linea, io, resp)]
    /\ UNCHANGED app

Cnc_enviar_parametros(io, resp) ==
    /\ ret' = [op |-> "enviar_parametros", arg |-> <<>>, before |-> app,
               linea |-> enviar_parametros_linea(app),
               fx |-> enviar_parametros(app, io, resp)]
    /\ UNCHANGED app

CncCalls ==
    \/ \E port \in Ports : Cnc_select_port(port)
    \/ \E paso \in PasoTexts : Cnc_type_paso(paso)
    \/ \E t \in VelAcelTexts : Cnc_type_vel_acel(t[1], t[2])
    \/ \E opened \in BOOLEAN : Cnc_conectar(opened)
    \/ \E closed \in BOOLEAN : Cnc_desconectar(closed)
    \/ \E d \in MoverArgs, r \in PortReplies :
          Cnc_mover(d[1], d[2], d[3], r[1], r[2])
    \/ \E b \in DOMAIN JogButtons, r \in PortReplies : Cnc_jog(b, r[1], r[2])
    \/ \E linea \in {<<"E", "N">>, <<"D", "I">>}, r \in PortReplies :
          Cnc_enviar_linea(linea, r[1], r[2])
    \/ \E r \in PortReplies : Cnc_enviar_parametros(r[1], r[2])

CncNext == CncCalls /\ UNCHANGED cncOther

SpecCnc == CncInit /\ [][CncNext]_vars

(***************************************************************************)
(* The UbicacionManager driven call by call, as test_geocoder.py and        *)
(* AppPC/test_ubicacion.py drive it.                                       *)
(***************************************************************************)
\* the arguments given to establecer_ubicacion_manual: Cordoba, a place on
\* the equator, the north pole on the Greenwich meridian, a latitude of
\* 90.0001 degrees
ManualInputs ==
    { Cordoba,
      [latitud |-> 0, longitud |-> -641885, altitud |-> 0],
      [latitud |-> LAT_LIMIT, longitud |-> 0, altitud |-> 0],
      [latitud |-> LAT_LIMIT + 1, longitud |-> -641885, altitud |-> 430] }

\* a saved file without the 'latitud' key
MissingLatitudFile ==
    json_dump([longitud |-> Cordoba.longitud, altitud |-> Cordoba.altitud])

\* a saved file whose latitud is 91 degrees
InvalidLatitudFile ==
    json_dump(ManualDict(LAT_LIMIT + 10000, Cordoba.longitud, Cordoba.altitud))

\* the files present before the first call
MgrInitialFiles == {None, MissingLatitudFile, InvalidLatitudFile}

\* the answers the address geocoders give in turn
AddressAnswers ==
    { <<[raised |-> TRUE], [raised |-> FALSE, ok |-> FALSE], [raised |-> TRUE]>>,
      <<[raised |-> FALSE, ok |-> TRUE, lat |-> NO_COORD, lon |-> NO_COORD],
        [raised |-> FALSE, ok |-> TRUE, lat |-> 0, lon |-> 100000],
        [raised |-> FALSE, ok |-> TRUE, lat |-> 404168, lon |-> -37038]>> }

\* everything but the manager, its file and the record of the last call
mgrOther ==
    <<sim, simulator, ubicacion_data, earth_location, running, trackVars,
      astroVars, selVars, frame, main, updaters, detectors, app>>

MgrInit ==
    /\ ubicacion_mgr = NewManager
    /\ archivo \in MgrInitialFiles
    /\ ret = [op |-> "init"]
    /\ sim = NewSimulator(None)
    /\ simulator = None
    /\ ubicacion_data = None
    /\ earth_location = None
    /\ running = FALSE
    /\ current_target = NoName
    /\ target_coords = None
    /\ telescope_pos = None
    /\ tracking_status = <<"Inactivo", NoName>>
    /\ sun_moon_info = None
    /\ sidereal_time = "00:00:00"
    /\ available_targets = <<>>
    /\ selected_target_index = 0
    /\ frame = None
    /\ main = [pc |-> "exited", target_name |-> NoName]
    /\ updaters = [u \in Loops |-> "unstarted"]
    /\ detectors = [d \in Detectors |-> Unstarted]
    /\ app = NewCNCApp

\* the calls that run obtener_ubicacion_automatica / _alternativa
LocatorOps == {"obtener_ubicacion", "obtener_ubicacion_alternativa"}

\* the last call has returned
MgrReturned == ret.op \in LocatorOps => ret.t.pc = "located"

\* obtener_ubicacion() (lines 143-148) or obtener_ubicacion_alternativa() is
\* entered
Mgr_locate(op) ==
    /\ MgrReturned
    /\ ret' = [op |-> op,
               t |-> IF op = "obtener_ubicacion" THEN LocatorStart
                     ELSE [LocatorStart EXCEPT !.pc = "alt_geocode", !.prov = 1],
               called |-> <<>>,
               answered |-> <<>>,
               before |-> ubicacion_mgr]
    /\ UNCHANGED <<ubicacion_mgr, archivo>>

\* the geocoder function the statement at t calls
ProviderAt(t) == IF t.pc = "auto_geocode" THEN "ip" ELSE Proveedores[t.prov]

\* one statement of the call entered: the provider called and whether it
\* answered with g.ok are appended to the record
Mgr_locate_step ==
    /\ ~MgrReturned
    /\ \E g \in IF ret.t.pc \in GeocodePcs THEN GeoAnswers ELSE {[raised |-> TRUE]} :
          LET r == ObtenerStep(ret.t, ubicacion_mgr, g)
          IN  /\ ubicacion_mgr' = r[2]
              /\ ret' = IF ret.t.pc \in GeocodePcs
                        THEN [ret EXCEPT !.t = r[1],
                                         !.called = Append(@, ProviderAt(ret.t)),
                                         !.answered = Append(@, ~g.raised /\ g.ok)]
                        ELSE [ret EXCEPT !.t = r[1]]
    /\ UNCHANGED archivo

Mgr_obtener_ubicacion_por_direccion(answers) ==
    /\ MgrReturned
    /\ ubicacion_mgr' = obtener_ubicacion_por_direccion(ubicacion_mgr, answers)
    /\ ret' = [op |-> "obtener_ubicacion_por_direccion",
               before |-> ubicacion_mgr,
               raised |-> FALSE,
               val |-> obtener_ubicacion_por_direccion_result(ubicacion_mgr, answers)]
    /\ UNCHANGED archivo

Mgr_establecer_ubicacion_manual(x) ==
    /\ MgrReturned
    /\ ubicacion_mgr' =
          establecer_ubicacion_manual(ubicacion_mgr, x.latitud, x.longitud, x.altitud)
    /\ ret' = [op |-> "establecer_ubicacion_manual",
               arg |-> x,
               before |-> ubicacion_mgr,
               raised |-> establecer_ubicacion_manual_raises(x.latitud, x.longitud,
                                                             x.altitud)]
    /\ UNCHANGED archivo

Mgr_guardar_ubicacion ==
    /\ MgrReturned
    /\ archivo' = guardar_ubicacion(ubicacion_mgr, archivo)
    /\ ret' = [op |-> "guardar_ubicacion",
               before |-> ubicacion_mgr,
               raised |-> FALSE,
               val |-> guardar_ubicacion_result(ubicacion_mgr)]
    /\ UNCHANGED ubicacion_mgr

\* cargar_ubicacion on this manager, or on a new UbicacionManager() that
\* takes its place (test_geocoder.py, lines 113-114)
Mgr_cargar_ubicacion(fresh) ==
    /\ MgrReturned
    /\ LET m == IF fresh THEN NewManager ELSE ubicacion_mgr
       IN  /\ ubicacion_mgr' = cargar_ubicacion(m, archivo)
           /\ ret' = [op |-> "cargar_ubicacion",
                      fresh |-> fresh,
                      before |-> m,
                      raised |-> FALSE,
                      val |-> cargar_ubicacion_result(m, archivo)]
    /\ UNCHANGED archivo

MgrCalls ==
    \/ \E op \in LocatorOps : Mgr_locate(op)
    \/ Mgr_locate_step
    \/ \E answers \in AddressAnswers : Mgr_obtener_ubicacion_por_direccion(answers)
    \/ \E x \in ManualInputs : Mgr_establecer_ubicacion_manual(x)
    \/ Mgr_guardar_ubicacion
    \/ \E fresh \in BOOLEAN : Mgr_cargar_ubicacion(fresh)

MgrNext == MgrCalls /\ UNCHANGED mgrOther

SpecMgr == MgrInit /\ [][MgrNext]_vars

(***************************************************************************)
(* Properties of the simulator.                                            *)
(***************************************************************************)
\* the last call was get_sun_moon_info and it returned a computed result
SunMoonReturned == ret.op = "get_sun_moon_info" /\ Successful(ret.val)

\* the last call was get_target_coordinates and it returned a computed result
TargetCoordsReturned == ret.op = "get_target_coordinates" /\ Successful(ret.val)

\* C1: get_sun_moon_info classifies the day phase from the solar altitude a:
\* Dia iff a > 6, Crepusculo iff -6 < a <= 6, Crepusculo nautico iff
\* -12 < a <= -6, Crepusculo astronomico iff -18 < a <= -12, Noche iff a <= -18.
C1_DayPhaseTable ==
    SunMoonReturned =>
        LET a == ret.val.sun.altitud
            p == ret.val.day_phase
        IN  /\ (p = "Dia") <=> (a > 60)
            /\ (p = "Crepusculo") <=> (-60 < a /\ a <= 60)
            /\ (p = "Crepusculo nautico") <=> (-120 < a /\ a <= -60)
            /\ (p = "Crepusculo astronomico") <=> (-180 < a /\ a <= -120)
            /\ (p = "Noche") <=> (a <= -180)

\* a Sun exactly at -18 degrees was classified as night
C1_Witness ==
    SunMoonReturned /\ ret.val.sun.altitud = -180 /\ ret.val.day_phase = "Noche"

\* the order Day < Twilight < Nautical < Astronomical < Night
PhaseRank(p) ==
    CASE p = "Dia" -> 0
      [] p = "Crepusculo" -> 1
      [] p = "Crepusculo nautico" -> 2
      [] p = "Crepusculo astronomico" -> 3
      [] p = "Noche" -> 4

\* C2: of two successive classifications, the one for the strictly lower
\* solar altitude is never earlier in the order Day .. Night.
C2_PhaseMonotonic ==
    [][ (/\ SunMoonReturned
         /\ SunMoonReturned'
         /\ ret'.val.sun.altitud < ret.val.sun.altitud)
        => PhaseRank(ret'.val.day_phase) >= PhaseRank(ret.val.day_phase) ]_vars

\* a Sun exactly at -6 degrees was classified as nautical twilight, one step
\* later in the order than the civil twilight of any higher Sun
C2_Witness ==
    /\ SunMoonReturned
    /\ ret.val.sun.altitud = -60
    /\ PhaseRank(ret.val.day_phase) = 2

\* C3: observing_conditions is Good iff day_phase is Noche (solar altitude
\* <= -18) and Poor otherwise, whatever the altitude of the Moon.
C3_GoodIffNight ==
    SunMoonReturned =>
        /\ ret.val.observing_conditions \in {"Good", "Poor"}
        /\ (ret.val.observing_conditions = "Good") <=> (ret.val.day_phase = "Noche")
        /\ (ret.val.observing_conditions = "Good") <=> (ret.val.sun.altitud <= -180)

\* the verdict was Good with the Moon 30 degrees above the horizon
C3_Witness ==
    /\ SunMoonReturned
    /\ ret.val.observing_conditions = "Good"
    /\ ret.val.moon.altitud = 300

\* C4: is_visible iff altitud > 0, status is Visible iff is_visible and
\* Bajo el horizonte otherwise; the Sun's and the Moon's visible flags
\* follow the same rule.
C4_VisibleAboveHorizon ==
    /\ TargetCoordsReturned =>
          /\ ret.val.is_visible <=> (ret.val.altitud > 0)
          /\ ret.val.status = (IF ret.val.is_visible THEN "Visible"
                                                      ELSE "Bajo el horizonte")
    /\ SunMoonReturned =>
          /\ ret.val.sun.visible <=> (ret.val.sun.altitud > 0)
          /\ ret.val.moon.visible <=> (ret.val.moon.altitud > 0)

\* a target exactly on the horizon was reported as not visible
C4_Witness ==
    /\ TargetCoordsReturned
    /\ ret.val.altitud = 0
    /\ ~ret.val.is_visible
    /\ ret.val.status = "Bajo el horizonte"

\* C5: every place that decides visibility gives the same answer for the
\* same altitude: visible iff altitude > 0.
C5_OnePolicy ==
    /\ TargetCoordsReturned => (ret.val.is_visible <=> (ret.val.altitud > 0))
    /\ SunMoonReturned =>
          /\ ret.val.sun.visible <=> (ret.val.sun.altitud > 0)
          /\ ret.val.moon.visible <=> (ret.val.moon.altitud > 0)
    /\ ret.op \in {"imprimir_info_observacion", "vega_example"} =>
          (ret.visible <=> (ret.altitud > 0))

AdvTargetInCatalog ==
    /\ current_target # NoName =>
          /\ simulator # None
          /\ InCatalog(simulator, current_target)
    /\ simulator # None /\ simulator.target_object # NoName =>
          InCatalog(simulator, simulator.target_object)

\* C7: once the SPACE handler has returned and until the next selection by
\* ENTER, current_target, target_coords and telescope_pos are absent and no
\* "Siguiendo" status is shown, whatever the update thread was doing.
C7_StopResetsTracking ==
    (main.pc = "idle" /\ current_target = NoName) =>
        /\ target_coords = None
        /\ telescope_pos = None
        /\ tracking_status[1] # "Siguiendo"

\* C8: whenever a target is selected and coordinates are held, the
\* coordinates are those of the selected target.
C8_CoordsOfCurrentTarget ==
    (current_target # NoName /\ Successful(target_coords)) =>
        target_coords.name = current_target

\* C9: every step that assigns target_coords, telescope_pos, sun_moon_info or
\* sidereal_time is a step of an update thread.
C9_UpdateTaskSoleWriter ==
    [][ <<target_coords, telescope_pos, sun_moon_info, sidereal_time>>'
            # <<target_coords, telescope_pos, sun_moon_info, sidereal_time>>
        => updaters' # updaters ]_vars

\* a location dict that names a place
Describes(d) ==
    /\ d # None
    /\ Get(d, "latitud", NO_COORD) # NO_COORD
    /\ Get(d, "longitud", NO_COORD) # NO_COORD

\* the dict names a place and the EarthLocation is absent or another place
Torn(d, e) == Describes(d) /\ (e = None \/ e # EarthLocationOf(d))

AllDetectorsDone == \A d \in Detectors : detectors[d].pc \in {"unstarted", "done"}

\* C10: in the simple GUI no frame shows ubicacion_data naming one place with
\* earth_location absent or naming another, and once every detection thread
\* has finished and no handler is running the two fields name the same place.
C10_ObserverPublishedAtomically ==
    /\ frame # None => ~Torn(frame.ubicacion_data, frame.earth_location)
    /\ (AllDetectorsDone /\ main.pc = "idle") => ~Torn(ubicacion_data, earth_location)

\* the calls that need the observer
ObserverCalls ==
    {"get_target_coordinates", "get_sun_moon_info", "calcular_posicion_sol",
     "calcular_posicion_luna", "calcular_posicion_estrella",
     "obtener_info_observacion"}

C17_CatalogReadOnly ==
    /\ sim.catalog = InitialCatalog
    /\ ret.op = "get_catalog_objects" =>
          /\ Len(ret.val) = NumTargets
          /\ \A i \in 1..NumTargets : ret.val[i] = CatalogTable[i].name

\* the names are listed while the last target of the catalog is tracked
C17_Witness ==
    /\ ret.op = "get_catalog_objects"
    /\ sim.tracking_active
    /\ sim.target_object = CatalogTable[NumTargets].name
    /\ ret.val[1] = "Sirius"
    /\ ret.val[NumTargets] = sim.target_object

\* C18: for coordinates that are present and carry no error,
\* simulate_telescope_position returns 'Tracking active', both errors within
\* 0.1 degree, and the target's altitude and azimuth plus these errors; for
\* absent or error coordinates it returns zeros and 'No tracking'.
C18_MountWithinError ==
    ret.op = "simulate_telescope_position" =>
        IF Successful(ret.arg)
        THEN /\ ret.val.status = "Tracking active"
             /\ ret.val.tracking_error_alt \in -ERROR_RANGE..ERROR_RANGE
             /\ ret.val.tracking_error_az \in -ERROR_RANGE..ERROR_RANGE
             /\ ret.val.telescope_alt = ret.arg.altitud + ret.val.tracking_error_alt
             /\ ret.val.telescope_az = ret.arg.azimut + ret.val.tracking_error_az
        ELSE /\ ret.val.status = "No tracking"
             /\ ret.val.telescope_alt = 0
             /\ ret.val.telescope_az = 0
             /\ ret.val.tracking_error_alt = 0
             /\ ret.val.tracking_error_az = 0

\* a target on the horizon followed with the largest error on both axes
C18_Witness ==
    /\ ret.op = "simulate_telescope_position"
    /\ Successful(ret.arg)
    /\ ret.arg.altitud = 0
    /\ ret.val.tracking_error_alt = ERROR_RANGE
    /\ ret.val.tracking_error_az = -ERROR_RANGE
    /\ ret.val.telescope_alt = ERROR_RANGE

\* C15: two successive calls of get_target_coordinates, or of
\* get_sun_moon_info, on the same simulator state (observer and target) and
\* with the same instant argument return the same result, whatever the
\* clock shows at each call.
C15_PureInInstant ==
    [][ ( /\ ret.op \in {"get_target_coordinates", "get_sun_moon_info"}
          /\ ret'.op = ret.op
          /\ sim' = sim
          /\ ret'.timestamp = ret.timestamp )
        => ret'.val = ret.val ]_vars

(***************************************************************************)
(* Properties of the UbicacionManager.                                     *)
(***************************************************************************)
\* d has numeric latitud, longitud and altitud
NumericObserver(d) ==
    /\ d # None
    /\ Get(d, "latitud", NO_COORD) # NO_COORD
    /\ Get(d, "longitud", NO_COORD) # NO_COORD
    /\ Get(d, "altitud", NO_COORD) # NO_COORD

\* d is an observer: numeric fields, latitude and longitude in range
InRangeObserver(d) ==
    /\ NumericObserver(d)
    /\ d.latitud \in -LAT_LIMIT..LAT_LIMIT
    /\ d.longitud \in -LON_LIMIT..LON_LIMIT

Malformed(d) == ~InRangeObserver(d)

\* C13: cargar_ubicacion of a file that is present but malformed returns a
\* falsy value and leaves ubicacion_actual and earth_location as they were.
C13_MalformedFileIgnored ==
    ( /\ ret.op = "cargar_ubicacion"
      /\ archivo # None
      /\ Malformed(json_load(archivo)) )
    => /\ ret.val = None
       /\ ubicacion_mgr = ret.before

\* C14: establecer_ubicacion_manual with a latitude outside [-90, 90] fails
\* and leaves ubicacion_actual and earth_location as they were.
C14_OutOfRangeRejected ==
    ( /\ ret.op = "establecer_ubicacion_manual"
      /\ ret.arg.latitud \notin -LAT_LIMIT..LAT_LIMIT )
    => /\ ret.raised
       /\ ubicacion_mgr = ret.before

\* the order in which obtener_ubicacion consults the providers
ProviderOrder == <<"ip">> \o Proveedores

\* C19: obtener_ubicacion calls geocoder.ip first and then ipapi, freegeoip,
\* maxmind in this order; a provider is called only if every provider before
\* it failed; the call returns the location of the provider that answered,
\* and if all four failed it returns None and leaves the manager unchanged.
C19_ProvidersInOrder ==
    ret.op = "obtener_ubicacion" =>
        /\ Len(ret.called) <= Len(ProviderOrder)
        /\ \A i \in 1..Len(ret.called) : ret.called[i] = ProviderOrder[i]
        /\ \A i \in 1..(Len(ret.called) - 1) : ~ret.answered[i]
        /\ ret.t.pc = "located" =>
              IF \E i \in 1..Len(ret.answered) : ret.answered[i]
              THEN /\ ret.t.ubicacion # None
                   /\ ret.t.ubicacion = ubicacion_mgr.ubicacion_actual
              ELSE /\ ret.called = ProviderOrder
                   /\ ret.t.ubicacion = None
                   /\ ubicacion_mgr = ret.before

\* geocoder.ip and ipapi failed, freegeoip answered, maxmind was not called
C19_Witness ==
    /\ ret.op = "obtener_ubicacion"
    /\ ret.t.pc = "located"
    /\ ret.called = <<"ip", "ipapi", "freegeoip">>
    /\ ret.answered = <<FALSE, FALSE, TRUE>>
    /\ ret.t.ubicacion # None

\* the operations of the manager that write the location
LocationWriters ==
    LocatorOps \cup {"obtener_ubicacion_por_direccion",
                     "establecer_ubicacion_manual", "cargar_ubicacion"}

\* the last call was one of them and returned without an exception
WriterReturned ==
    /\ ret.op \in LocationWriters
    /\ MgrReturned
    /\ ret.op \notin LocatorOps => ~ret.raised

\* C20: after a completed operation that writes the location, whenever
\* ubicacion_actual holds a latitude and longitude in range (0 included),
\* get_earth_location() is the EarthLocation of exactly these values.
C20_EarthLocationInSync ==
    (WriterReturned /\ InRangeObserver(ubicacion_mgr.ubicacion_actual))
    => get_earth_location(ubicacion_mgr) = EarthLocationOf(ubicacion_mgr.ubicacion_actual)

\* C16: whatever the location provider left in ubicacion_data (a geocoder
\* answer without coordinates, a loaded file without a field), no frame of
\* the render loop raises an exception that ends the GUI.
C16_RenderNeverRaises == main.pc # "crashed"

(***************************************************************************)
(* Ranges and verdicts.                                                    *)
(***************************************************************************)

InfoObservacionReturned == ret.op = "obtener_info_observacion" /\ ret.val # None

EnviarLineaCalled == ret.op # "init" /\ ret.linea # NoLine

\* C23: bytes are written to a serial port only while a port is open:
\* enviar_linea called while self.ser is absent or closed shows the
\* 'No hay puerto abierto' warning and writes nothing, logs nothing and
\* reads nothing.
C23_WritesOnlyWhileOpen ==
    /\ (EnviarLineaCalled /\ ~PortOpen(ret.before)) =>
          /\ ret.fx.dialogs = <<"Conexion">>
          /\ ret.fx.wire = <<>>
          /\ ret.fx.log = <<>>
          /\ ret.fx.reads = 0
    /\ (ret.op # "init" /\ ret.fx.wire # <<>>) => PortOpen(ret.before)

\* EN pressed after the port was opened and closed again
C23_Witness ==
    /\ ret.op = "enviar_linea"
    /\ ret.before.ser # None
    /\ ~ret.before.ser.is_open
    /\ ret.fx = Dialog("Conexion")

\* C24: the six jog buttons and 'Desconectar' are enabled iff a port has
\* been opened and not yet disconnected, 'Conectar' is enabled iff they are
\* disabled, and a conectar that fails to open the port changes nothing.
C24_JogEnabledIffConnected ==
    /\ \A b \in DOMAIN JogButtons : (app.jog[b] = "normal") <=> PortOpen(app)
    /\ (app.btn_des = "normal") <=> PortOpen(app)
    /\ (app.btn_con = "normal") <=> ~PortOpen(app)
    /\ (ret.op = "conectar" /\ ret.fx.dialogs # <<>>) => app = ret.before

\* a port opened and then disconnected: everything is back as at the start
C24_Witness ==
    /\ ret.op = "desconectar"
    /\ PortOpen(ret.before)
    /\ app.ser # None
    /\ ~app.ser.is_open
    /\ app.btn_con = "normal"
    /\ \A b \in DOMAIN JogButtons : app.jog[b] = "disabled"

\* the entries of a jog line: axis and signed distance, the zero ones left out
NonZeroEntry(e) == e[2] # 0

JogEntries(d, paso) ==
    SelectSeq(<< <<"X", d[1] * paso>>, <<"Y", d[2] * paso>>, <<"Z", d[3] * paso>> >>,
              NonZeroEntry)

RECURSIVE JogWords(_)
JogWords(entries) ==
    IF entries = <<>> THEN <<>>
    ELSE <<" ", entries[1][1]>> \o str(entries[1][2]) \o JogWords(Tail(entries))

MoverCalled == ret.op = "mover" \/ ret.op \in DOMAIN JogButtons

\* C25: mover sends nothing when the step is not an integer or is <= 0 or
\* when the three directions are 0; otherwise it sends exactly one line,
\* 'M' and the entries X, Y, Z of the non-zero axes in that order, each the
\* direction times the step; a jog button sends a single-axis move.
C25_MoverSendsValidStep ==
    MoverCalled =>
        LET text == ret.before.var_paso
            entries == JogEntries(ret.arg, int_value(text))
        IN  /\ Len(ret.fx.wire) <= 1
            /\ NotPositiveInt(text) =>
                  ret.linea = NoLine /\ ret.fx.wire = <<>>
            /\ ~NotPositiveInt(text) =>
                  /\ ret.linea = (IF entries = <<>> THEN NoLine
                                  ELSE <<"M">> \o JogWords(entries))
                  /\ (ret.arg = <<0, 0, 0>>) => ret.linea = NoLine
                  /\ ret.linea = NoLine => ret.fx.wire = <<>>
                  /\ ret.fx.wire # <<>> => ret.fx.wire = <<ret.linea \o <<"\n">>>>
                  /\ (ret.linea # NoLine /\ PortOpen(ret.before)
                          /\ ret.fx.dialogs = <<>>) => ret.fx.wire # <<>>
                  /\ ret.op \in DOMAIN JogButtons => Len(entries) = 1

\* a step of 200 with X forward and Y backward: 'M X200 Y-200' on the wire
C25_Witness ==
    /\ ret.op = "mover"
    /\ ret.arg = <<1, -1, 0>>
    /\ ret.before.var_paso = <<"2", "0", "0">>
    /\ ret.fx.wire = << <<"M", " ", "X", "2", "0", "0", " ", "Y", "-", "2", "0", "0", "\n">> >>

(***************************************************************************)
(* Properties of the advanced GUI's simulator and update loops.            *)
(***************************************************************************)

\* C26: whenever the advanced GUI shows a current_target, the simulator in
\* use has that target and is tracking it, also after M or R replaced the
\* observer location.  Looked at between two key handlers.
C26_TargetAgreesWithSimulator ==
    (MainAt("idle") /\ current_target # NoName) =>
        /\ simulator # None
        /\ simulator.target_object = current_target
        /\ simulator.tracking_active

\* the update_loop threads that were started and have not left their loop
AliveLoops == {u \in Loops : updaters[u] \notin {"unstarted", "exited"}}

\* C27: at most one update_loop thread is alive at any time, however many
\* times setup_simulator has run.
C27_OneUpdateLoop == Cardinality(AliveLoops) <= 1

\* C28: the simulator's two tracking fields stay consistent through
\* set_target and the GUI's stop action: tracking_active is True iff
\* target_object is present, so that calculate_tracking_rates returns None
\* exactly when get_target_coordinates does.  Looked at between two key
\* handlers.
C28_TrackingFieldsConsistent ==
    (MainAt("idle") /\ simulator # None) =>
        /\ simulator.tracking_active <=> (simulator.target_object # NoName)
        /\ \A alt \in GuiAlts :
              (calculate_tracking_rates(simulator) = None)
                  <=> (get_target_coordinates(simulator, alt, 0, TRUE) = None)

\* C29: while available_targets is non-empty the selector index is a valid
\* index of it; K_DOWN from the last entry gives 0 and K_UP from 0 gives the
\* last entry; K_UP then K_DOWN, and K_DOWN then K_UP, give the index back;
\* with an empty list K_UP, K_DOWN and K_RETURN change nothing.
C29_SelectorIndexWraps ==
    /\ [](available_targets # <<>> =>
             /\ 0 <= selected_target_index
             /\ selected_target_index < Len(available_targets)
             /\ navigate(navigate(selected_target_index, -1, available_targets),
                         1, available_targets) = selected_target_index
             /\ navigate(navigate(selected_target_index, 1, available_targets),
                         -1, available_targets) = selected_target_index)
    /\ [][ /\ (AdvKeyUp /\ available_targets # <<>>) =>
                 selected_target_index' =
                     (IF selected_target_index = 0
                      THEN Len(available_targets) - 1
                      ELSE selected_target_index - 1)
           /\ (AdvKeyDown /\ available_targets # <<>>) =>
                 selected_target_index' =
                     (IF selected_target_index = Len(available_targets) - 1
                      THEN 0
                      ELSE selected_target_index + 1)
           /\ ((AdvKeyUp \/ AdvKeyDown \/ AdvKeyEnter) /\ available_targets = <<>>) =>
                 UNCHANGED vars ]_vars

\* the selector on the last entry of a list of more than one
C29_Witness ==
    /\ Len(available_targets) > 1
    /\ selected_target_index = Len(available_targets) - 1

(***************************************************************************)
(* The advanced GUI started from a saved location, under ENTER, M and ESC, *)
(* with every update_loop thread scheduled again and again.                *)
(***************************************************************************)

StopInit == AdvInit /\ archivo # None

StopNext ==
    \/ AdvKeyEscape
    \/ AdvExit
    \/ AdvKeyEnter
    \/ AdvEnterTarget
    \/ AdvEnterStatus
    \/ AdvKeyM
    \/ AdvManualEarth
    \/ LoopsMainSetup
    \/ \E u \in Loops : UpdStep(u)

\* every update_loop thread keeps being scheduled
FairLoops == \A u \in Loops : WF_vars(UpdStep(u))

SpecStop == StopInit /\ [][StopNext]_vars /\ FairLoops

\* where a thread is inside update_astronomical_data
InFlightPcs == {"astro", "target", "coords", "telescope", "status"}

\* no update_loop thread is in its loop
AllLoopsLeft == \A u \in Loops : updaters[u] \in {"unstarted", "exited"}

====
